---------------------------- MODULE Spec2Model ----------------------------
(***************************************************************************)
(* A model of the magic-mount tool: the mount-tree builder                 *)
(* (src/src/module_tree.c, lines 1-855, mirrored by module_tree.zig) and   *)
(* the mount applier (the magic_mount.zig part of src/src/module_tree.c,   *)
(* lines 857-1244).                                                        *)
(*                                                                         *)
(* Paths are sequences of path segments; <<>> is the root of a file        *)
(* system.  Two file systems are the environment of a run: modfs, rooted   *)
(* at ctx->module_dir, and livefs, rooted at "/".  The overlay tree is a    *)
(* heap of Node records addressed by index, as the pointers of the code.   *)
(***************************************************************************)
EXTENDS Naturals, Integers, Sequences, FiniteSets, TLC

(***************************************************************************)
(* Bounds of the model.                                                    *)
(***************************************************************************)
\* how many module directories the module root holds at most
MaxModules == 2
\* how many injected system-call failures one run suffers at most
MaxFail == 1
\* how many symbolic links one path resolution follows at most
SymFuel == 2

(***************************************************************************)
(* Characters and strings.  A C string is a sequence of one-character      *)
(* strings; strlen is Len.                                                 *)
(***************************************************************************)
S_dotdot_vendor == <<".", ".", "/", "v", "e", "n", "d", "o", "r">>
S_dotdot_vendor_slash == S_dotdot_vendor \o <<"/">>
S_dotdot_vendor_alt == S_dotdot_vendor \o <<"_", "a", "l", "t">>
S_vendor_alt == <<"/", "v", "e", "n", "d", "o", "r", "_", "a", "l", "t">>
S_data_hosts == <<"/", "d", "a", "t", "a", "/", "h", "o", "s", "t", "s">>
S_module_dir == <<"/", "d", "a", "t", "a", "/", "a", "d", "b", "/",
                  "m", "o", "d", "u", "l", "e", "s">>

\* the characters of the names the builder joins into paths
NameChars(n) ==
    CASE n = "vendor"     -> <<"v", "e", "n", "d", "o", "r">>
      [] n = "system_ext" -> <<"s", "y", "s", "t", "e", "m", "_", "e", "x", "t">>
      [] n = "product"    -> <<"p", "r", "o", "d", "u", "c", "t">>
      [] n = "odm"        -> <<"o", "d", "m">>
      [] n = "my_stock"   -> <<"m", "y", "_", "s", "t", "o", "c", "k">>
      [] n = "mi_ext"     -> <<"m", "i", "_", "e", "x", "t">>
      [] n = "system"     -> <<"s", "y", "s", "t", "e", "m">>
      [] n = "modA"       -> <<"m", "o", "d", "A">>
      [] n = "modB"       -> <<"m", "o", "d", "B">>
      [] n = "modC"       -> <<"m", "o", "d", "C">>
      [] n = "v"          -> <<"v">>
      [] n = "va"         -> <<"v", "a">>
      [] n = "a"          -> <<"a">>
      [] OTHER            -> <<"?">>

(***************************************************************************)
(* File systems.  An entry is what lstat and readlink tell of it; org tells  *)
(* where the entry comes from: "orig" for an entry the run found in place. *)
(***************************************************************************)
NoPath == <<"<none>">>

E_Reg == [kind |-> "reg", rdev |-> 0, opaque |-> FALSE, target |-> <<>>, to |-> NoPath,
          org |-> "orig"]
E_Dir == [kind |-> "dir", rdev |-> 0, opaque |-> FALSE, target |-> <<>>, to |-> NoPath,
          org |-> "orig"]
\* a directory that carries the xattr trusted.overlay.opaque = "y"
E_Opaque == [kind |-> "dir", rdev |-> 0, opaque |-> TRUE, target |-> <<>>, to |-> NoPath,
          org |-> "orig"]
\* a symbolic link: target is its text, to the path it resolves to (NoPath: dangling)
E_Lnk(t, p) == [kind |-> "lnk", rdev |-> 0, opaque |-> FALSE, target |-> t, to |-> p,
                org |-> "orig"]
\* a character device with rdev 0: the overlayfs whiteout
E_Wh == [kind |-> "chr", rdev |-> 0, opaque |-> FALSE, target |-> <<>>, to |-> NoPath,
          org |-> "orig"]
\* a character device with another rdev
E_Chr == [kind |-> "chr", rdev |-> 42, opaque |-> FALSE, target |-> <<>>, to |-> NoPath,
          org |-> "orig"]
\* a fifo: a file type the builder does not support
E_Fifo == [kind |-> "fifo", rdev |-> 0, opaque |-> FALSE, target |-> <<>>, to |-> NoPath,
          org |-> "orig"]

\* the file system holding the <<path, entry>> pairs S
MkFS(S) == [p \in {x[1] : x \in S} |-> (CHOOSE x \in S : x[1] = p)[2]]

\* the pairs S moved below the directory prefix
Under(prefix, S) ==
    {<<prefix \o x[1],
       IF x[2].to = NoPath THEN x[2] ELSE [x[2] EXCEPT !.to = prefix \o @]>> : x \in S}

\* every name a directory of the model may hold, in the order readdir returns them
DirOrder == <<"modA", "modB", "modC",
              "disable", "remove", "skip_mount", "module.prop",
              "data", "system", "vendor", "odm", "my_stock", "mi_ext",
              "lib", "etc", "app",
              "libfoo.so", "libbar.so", "init.rc", "hosts", "fstab", "gone",
              "sub", "f", "lnk", "pipe", "Replaced", ".replace", "new", "old", "x", "y">>

\* the segments the kernel walks for a name that was joined into a path as it is:
\* the names with a '/' that a run may be given as extra partitions
Segments(name) ==
    CASE name = "/my_stock" -> <<"my_stock">>
      [] name = "my_stock/" -> <<"my_stock">>
      [] OTHER              -> <<name>>

\* the directory above the canonical directory done, the root for the root
Above(done) == IF done = <<>> THEN <<>> ELSE SubSeq(done, 1, Len(done) - 1)

\* the canonical path of done \o rest, following the links of every component but
\* the last; NoPath when a component is missing or no directory
RECURSIVE Canon(_, _, _, _)
Canon(fs, done, rest, fuel) ==
    IF rest = <<>> THEN done
    ELSE IF Segments(Head(rest)) # <<Head(rest)>>
    THEN Canon(fs, done, Segments(Head(rest)) \o Tail(rest), fuel)
    ELSE IF Head(rest) = ".."
    THEN Canon(fs, Above(done), Tail(rest), fuel)
    ELSE LET p == Append(done, Head(rest)) IN
         IF Len(rest) = 1 THEN p
         ELSE IF p \notin DOMAIN fs THEN NoPath
         ELSE IF fs[p].kind = "dir" THEN Canon(fs, p, Tail(rest), fuel)
         ELSE IF fs[p].kind = "lnk" /\ fs[p].to # NoPath /\ fuel > 0
              THEN Canon(fs, <<>>, fs[p].to \o Tail(rest), fuel - 1)
         ELSE NoPath

\* the path lstat(2) reads: the links of the last component are not followed
LPath(fs, path) == Canon(fs, <<>>, path, SymFuel)

\* the path stat(2) reads: the last component's links are followed too
RECURSIVE SPathF(_, _, _)
SPathF(fs, path, fuel) ==
    LET c == Canon(fs, <<>>, path, fuel) IN
    IF c = NoPath \/ c \notin DOMAIN fs THEN NoPath
    ELSE IF fs[c].kind # "lnk" THEN c
    ELSE IF fs[c].to = NoPath \/ fuel = 0 THEN NoPath
    ELSE SPathF(fs, fs[c].to, fuel - 1)

SPath(fs, path) == SPathF(fs, path, SymFuel)

lstat_ok(fs, path) == LPath(fs, path) \in DOMAIN fs
lstat(fs, path) == fs[LPath(fs, path)]
stat_ok(fs, path) == SPath(fs, path) \in DOMAIN fs
stat(fs, path) == fs[SPath(fs, path)]

\* the entry at the canonical path c is of kind k
KindAt(fs, c, k) == c \in DOMAIN fs /\ fs[c].kind = k

\* utils: path_exists, path_is_dir, path_is_symlink
path_exists(fs, path) == stat_ok(fs, path)
path_is_dir(fs, path) == KindAt(fs, SPath(fs, path), "dir")
path_is_symlink(fs, path) == KindAt(fs, LPath(fs, path), "lnk")

\* utils: path_join on segment paths; an empty name returns base unchanged
path_join(base, name) == IF name = "" THEN base ELSE Append(base, name)

\* readdir of an opened directory: the names of its entries but "." and ".."
readdir(fs, dir) ==
    LET d == SPath(fs, dir) IN
    SelectSeq(DirOrder, LAMBDA n : Append(d, n) \in DOMAIN fs)


(***************************************************************************)
(* The environment: what module directories and the live root may hold.    *)
(* A module template is the content of one module directory, relative to   *)
(* it.                                                                     *)
(***************************************************************************)
\* a single file that overlays a live regular file
TplLib ==
    { <<(<<"system">>), E_Dir>>, <<(<<"system", "lib">>), E_Dir>>,
      <<(<<"system", "lib", "libfoo.so">>), E_Reg>> }

\* a regular file over a live one, a symbolic link and a whiteout in one directory
TplEtc ==
    { <<(<<"system">>), E_Dir>>, <<(<<"system", "etc">>), E_Dir>>,
      <<(<<"system", "etc", "init.rc">>), E_Reg>>,
      <<(<<"system", "etc", "hosts">>), E_Lnk(S_data_hosts, NoPath)>>,
      <<(<<"system", "etc", "fstab">>), E_Wh>> }

\* a directory marked by the .replace file, with a directory below it
TplRepl ==
    { <<(<<"system">>), E_Dir>>, <<(<<"system", "app">>), E_Dir>>,
      <<(<<"system", "app", "Replaced">>), E_Dir>>,
      <<(<<"system", "app", "Replaced", ".replace">>), E_Reg>>,
      <<(<<"system", "app", "Replaced", "new">>), E_Reg>>,
      <<(<<"system", "app", "Replaced", "sub">>), E_Dir>>,
      <<(<<"system", "app", "Replaced", "sub", "f">>), E_Reg>> }

\* real directories below system/vendor and system/odm
TplVendorDir ==
    { <<(<<"system">>), E_Dir>>, <<(<<"system", "vendor">>), E_Dir>>,
      <<(<<"system", "vendor", "etc">>), E_Dir>>,
      <<(<<"system", "vendor", "etc", "x">>), E_Reg>>,
      <<(<<"system", "odm">>), E_Dir>>,
      <<(<<"system", "odm", "x">>), E_Reg>> }

\* system/vendor is the link t, the content lies in <module>/vendor; the module
\* also brings content for the extra partition my_stock
TplVendorLnk(t, p) ==
    { <<(<<"system">>), E_Dir>>, <<(<<"system", "vendor">>), E_Lnk(t, p)>>,
      <<(<<"vendor">>), E_Dir>>, <<(<<"vendor", "etc">>), E_Dir>>,
      <<(<<"vendor", "etc", "x">>), E_Reg>>,
      <<(<<"my_stock">>), E_Dir>>, <<(<<"my_stock", "y">>), E_Reg>> }

\* entries whose live counterpart is absent or of another type: lib/sub/f has no
\* live counterpart, lib/libbar.so is a directory over a live regular file,
\* lib/libfoo.so a fifo, etc an opaque directory, etc/hosts a regular file where
\* TplEtc holds a symbolic link
TplOdd ==
    { <<(<<"system">>), E_Dir>>, <<(<<"system", "lib">>), E_Dir>>,
      <<(<<"system", "lib", "sub">>), E_Dir>>,
      <<(<<"system", "lib", "sub", "f">>), E_Reg>>,
      <<(<<"system", "lib", "libfoo.so">>), E_Fifo>>,
      <<(<<"system", "etc">>), E_Opaque>>,
      <<(<<"system", "etc", "hosts">>), E_Reg>>,
      <<(<<"system", "etc", "gone">>), E_Chr>> }

\* a directory where the live system holds a regular file
TplMismatch ==
    { <<(<<"system">>), E_Dir>>, <<(<<"system", "lib">>), E_Dir>>,
      <<(<<"system", "lib", "libbar.so">>), E_Dir>>,
      <<(<<"system", "lib", "libbar.so", "f">>), E_Reg>> }

\* a regular file named as the directories of the other modules
TplFile ==
    { <<(<<"system">>), E_Dir>>, <<(<<"system", "lib">>), E_Reg>>,
      <<(<<"system", "etc">>), E_Dir>> }

\* a system directory without effective content: one empty directory
TplEmpty ==
    { <<(<<"system">>), E_Dir>>, <<(<<"system", "lib">>), E_Dir>> }

\* the extra partition my_stock without effective content: one empty directory,
\* named as the regular file my_stock/y of TplVendorLnk
TplStock ==
    { <<(<<"my_stock">>), E_Dir>>, <<(<<"my_stock", "y">>), E_Dir>> }

\* no system directory at all
TplNoSys == { <<(<<"module.prop">>), E_Reg>> }

\* system/vendor is a compatible link and no directory <module>/vendor exists
TplLnkOnly ==
    { <<(<<"system">>), E_Dir>>,
      <<(<<"system", "vendor">>), E_Lnk(S_dotdot_vendor, NoPath)>> }

\* system/vendor is a compatible link and <module>/vendor holds an empty directory
TplLnkEmpty ==
    { <<(<<"system">>), E_Dir>>,
      <<(<<"system", "vendor">>), E_Lnk(S_dotdot_vendor, <<"vendor">>)>>,
      <<(<<"vendor">>), E_Dir>>, <<(<<"vendor", "etc">>), E_Dir>> }

\* system/vendor and system/my_stock are compatible links, the content lies in
\* <module>/vendor and <module>/my_stock
TplStockLnk ==
    { <<(<<"system">>), E_Dir>>,
      <<(<<"system", "vendor">>), E_Lnk(S_dotdot_vendor, <<"vendor">>)>>,
      <<(<<"system", "my_stock">>),
        E_Lnk(<<".", ".", "/">> \o NameChars("my_stock"), <<"my_stock">>)>>,
      <<(<<"vendor">>), E_Dir>>, <<(<<"vendor", "x">>), E_Reg>>,
      <<(<<"my_stock">>), E_Dir>>, <<(<<"my_stock", "y">>), E_Reg>> }

\* a system directory whose only entries are directories: app holds the empty sub
TplDeep ==
    { <<(<<"system">>), E_Dir>>, <<(<<"system", "app">>), E_Dir>>,
      <<(<<"system", "app", "sub">>), E_Dir>> }

\* the same with sub marked replace
TplDeepRepl ==
    { <<(<<"system">>), E_Dir>>, <<(<<"system", "app">>), E_Dir>>,
      <<(<<"system", "app", "sub">>), E_Opaque>> }

\* no system directory: the only content lies in the extra partition my_stock
TplStockOnly ==
    { <<(<<"my_stock">>), E_Dir>>, <<(<<"my_stock", "y">>), E_Reg>> }

ModuleTemplate(t) ==
    CASE t = "lib"      -> TplLib
      [] t = "etc"      -> TplEtc
      [] t = "repl"     -> TplRepl
      [] t = "vdir"     -> TplVendorDir
      [] t = "vlnk"     -> TplVendorLnk(S_dotdot_vendor_slash, <<"vendor">>)
      [] t = "vlnk_alt" -> TplVendorLnk(S_vendor_alt, NoPath)
      [] t = "odd"      -> TplOdd
      [] t = "mismatch" -> TplMismatch
      [] t = "file"     -> TplFile
      [] t = "empty"    -> TplEmpty
      [] t = "stock"    -> TplStock
      [] t = "deep"     -> TplDeep
      [] t = "deep_repl" -> TplDeepRepl
      [] t = "stock_only" -> TplStockOnly
      [] t = "lnk_only" -> TplLnkOnly
      [] t = "lnk_empty" -> TplLnkEmpty
      [] t = "stock_lnk" -> TplStockLnk
      [] OTHER          -> TplNoSys

\* the name of the i-th entry of the module root
ModuleName(i) == DirOrder[i]

\* the sentinel files of a module directory
Sentinel(s) == IF s = "none" THEN {} ELSE { <<(<<s>>), E_Reg>> }

\* the module root holding the modules ms, each [tpl, sentinel]
ModFS(ms) ==
    MkFS({ <<(<<>>), E_Dir>> } \cup
         UNION { Under(<<ModuleName(i)>>,
                       { <<(<<>>), E_Dir>> } \cup ModuleTemplate(ms[i].tpl)
                                           \cup Sentinel(ms[i].sentinel))
                 : i \in DOMAIN ms })

\* the live partition P, in one of three layouts
LivePartition(P, layout) ==
    LET content == { <<(<<>>), E_Dir>>, <<(<<"etc">>), E_Dir>>,
                     <<(<<"etc", "x">>), E_Reg>>, <<(<<"x">>), E_Reg>> }
    IN CASE layout = "symlinked" ->
              Under(<<P>>, content) \cup { <<(<<"system", P>>), E_Lnk(<<"/">> \o NameChars(P), <<P>>)>> }
         [] layout = "insystem" -> Under(<<"system", P>>, content)
         [] OTHER -> Under(<<P>>, content) \cup Under(<<"system", P>>, content)

\* the live root file system
LiveFS(layout) ==
    MkFS({ <<(<<>>), E_Dir>>, <<(<<"data">>), E_Dir>>,
           <<(<<"system">>), E_Dir>>,
           <<(<<"system", "lib">>), E_Dir>>,
           <<(<<"system", "lib", "libfoo.so">>), E_Reg>>,
           <<(<<"system", "lib", "libbar.so">>), E_Reg>>,
           <<(<<"system", "etc">>), E_Dir>>,
           <<(<<"system", "etc", "init.rc">>), E_Reg>>,
           <<(<<"system", "etc", "fstab">>), E_Reg>>,
           <<(<<"system", "etc", "sub">>), E_Dir>>,
           <<(<<"system", "etc", "sub", "f">>), E_Reg>>,
           <<(<<"system", "etc", "lnk">>), E_Lnk(S_data_hosts, NoPath)>>,
           <<(<<"system", "etc", "pipe">>), E_Fifo>>,
           <<(<<"system", "app">>), E_Dir>>,
           <<(<<"system", "app", "Replaced">>), E_Dir>>,
           <<(<<"system", "app", "Replaced", "old">>), E_Reg>>,
           <<(<<"system", "app", "Replaced", "sub">>), E_Dir>>,
           <<(<<"system", "app", "Replaced", "sub", "old">>), E_Reg>>,
           <<(<<"my_stock">>), E_Dir>>,
           <<(<<"my_stock", "y">>), E_Reg>> }
         \cup LivePartition("vendor", layout)
         \cup LivePartition("odm", layout))


(***************************************************************************)
(* Nodes of the overlay tree (module_tree.h, module_tree.zig Node).        *)
(* A null module_path is <<>>, a null module_name is "".                   *)
(***************************************************************************)
NFT_REGULAR == "REGULAR"
NFT_DIRECTORY == "DIRECTORY"
NFT_SYMLINK == "SYMLINK"
NFT_WHITEOUT == "WHITEOUT"

NullPath == <<>>
NullName == ""

node_new(name, t) ==
    [name |-> name, type |-> t, children |-> <<>>,
     module_path |-> NullPath, module_name |-> NullName,
     replace |-> FALSE, skip |-> FALSE, done |-> FALSE]

node_type_from_stat(st) ==
    IF st.kind = "chr" /\ st.rdev = 0 THEN NFT_WHITEOUT
    ELSE IF st.kind = "reg" THEN NFT_REGULAR
    ELSE IF st.kind = "dir" THEN NFT_DIRECTORY
    ELSE IF st.kind = "lnk" THEN NFT_SYMLINK
    ELSE NFT_WHITEOUT

\* the xattr reads "y", or the directory holds the file .replace
dir_is_replace(fs, path) ==
    \/ lstat(fs, path).opaque
    \/ path_exists(fs, Append(path, ".replace"))

\* whether node_create_from_fs makes a node of the entry at the canonical path c
SupportedAt(fs, c) == c \in DOMAIN fs /\ fs[c].kind \in {"chr", "reg", "dir", "lnk"}

\* whether node_create_from_fs makes a node of the entry at path
node_create_ok(fs, path) == SupportedAt(fs, LPath(fs, path))

\* node_create_from_fs gone wrong: the module's name is not recorded
node_filled_unnamed(fs, name, path, module_name, t) ==
    [node_new(name, t) EXCEPT
        !.module_path = path,
        !.replace = (t = NFT_DIRECTORY) /\ dir_is_replace(fs, path)]

\* the node of type t that node_create_from_fs fills in
node_filled(fs, name, path, module_name, t) ==
    [node_new(name, t) EXCEPT
        !.module_path = path,
        !.module_name = module_name,
        !.replace = (t = NFT_DIRECTORY) /\ dir_is_replace(fs, path)]

\* the node node_create_from_fs makes of the entry at path
node_create_from_fs(fs, name, path, module_name) ==
    node_filled(fs, name, path, module_name, node_type_from_stat(lstat(fs, path)))

\* the heap with child appended to the children of parent
node_child_append(heap, parent, child) ==
    [heap EXCEPT ![parent].children = Append(@, child)]

\* the first child of parent named name, 0 when there is none
FirstOf(cs, hits) == IF hits = {} THEN 0 ELSE cs[CHOOSE i \in hits : \A j \in hits : i <= j]

\* node_child_find gone wrong: no child is ever found
node_child_find_never(heap, parent, name) == 0

node_child_find(heap, parent, name) ==
    FirstOf(heap[parent].children,
            {i \in DOMAIN heap[parent].children : heap[heap[parent].children[i]].name = name})

\* the heap with the first child of parent named name taken out of its children
Without(cs, c) ==
    SelectSeq(cs, LAMBDA x : x # c)

node_child_detach(heap, parent, name) ==
    [heap EXCEPT ![parent].children = Without(@, node_child_find(heap, parent, name))]

\* a module directory holding disable, remove or skip_mount is disabled
DisableFiles == <<"disable", "remove", "skip_mount">>

\* module_is_disabled gone wrong: the sentinel files are not looked at
module_is_disabled_never(fs, mod_dir) == FALSE

module_is_disabled(fs, mod_dir) ==
    \E i \in DOMAIN DisableFiles : path_exists(fs, path_join(mod_dir, DisableFiles[i]))

(***************************************************************************)
(* node_scan_dir: merge the directory dir of module module_name into the   *)
(* node self.  st is [heap, total]: the nodes and ctx->stats.nodes_total.  *)
(* The result adds rc (0, or -1 when a directory cannot be opened) and     *)
(* any, the value left in *has_any.                                        *)
(***************************************************************************)
RECURSIVE node_scan_dir(_, _, _, _, _)
RECURSIVE node_scan_entries(_, _, _, _, _, _, _)
RECURSIVE node_scan_child(_, _, _, _, _, _, _, _)
RECURSIVE node_scan_sub(_, _, _, _, _, _, _, _)

\* the loop of node_scan_dir over the names the directory holds
node_scan_entries(fs, st, self, dir, module_name, names, any) ==
    IF names = <<>>
    THEN [rc |-> 0, any |-> any, heap |-> st.heap, total |-> st.total]
    ELSE IF node_child_find(st.heap, self, Head(names)) # 0
    THEN node_scan_child(fs, st, self, dir, module_name, names, any,
                         node_child_find(st.heap, self, Head(names)))
    ELSE IF node_create_ok(fs, path_join(dir, Head(names)))
    THEN node_scan_child(
             fs,
             [heap |-> node_child_append(
                           Append(st.heap,
                                  node_create_from_fs(fs, Head(names),
                                                      path_join(dir, Head(names)),
                                                      module_name)),
                           self, Len(st.heap) + 1),
              total |-> st.total + 1],
             self, dir, module_name, names, any, Len(st.heap) + 1)
    ELSE node_scan_entries(fs, st, self, dir, module_name, Tail(names), any)

\* the body of the loop once the child of the name is at hand
node_scan_child(fs, st, self, dir, module_name, names, any, child) ==
    IF st.heap[child].type = NFT_DIRECTORY
    THEN node_scan_sub(fs, self, dir, module_name, names, any, child,
                       node_scan_dir(fs, st, child, path_join(dir, Head(names)),
                                     module_name))
    ELSE node_scan_entries(fs, st, self, dir, module_name, Tail(names), TRUE)

\* node_scan_sub gone wrong: what the recursion into a directory child reported
\* is dropped, only its replace mark counts
node_scan_sub_flat(fs, self, dir, module_name, names, any, child, r) ==
    IF r.rc # 0
    THEN [rc |-> -1, any |-> FALSE, heap |-> r.heap, total |-> r.total]
    ELSE node_scan_entries(fs, [heap |-> r.heap, total |-> r.total],
                           self, dir, module_name, Tail(names),
                           any \/ r.heap[child].replace)

\* the body of the loop after the recursion into a directory child returned r
node_scan_sub(fs, self, dir, module_name, names, any, child, r) ==
    IF r.rc # 0
    THEN [rc |-> -1, any |-> FALSE, heap |-> r.heap, total |-> r.total]
    ELSE node_scan_entries(fs, [heap |-> r.heap, total |-> r.total],
                           self, dir, module_name, Tail(names),
                           any \/ r.any \/ r.heap[child].replace)

node_scan_dir(fs, st, self, dir, module_name) ==
    IF ~path_is_dir(fs, dir)
    THEN [rc |-> -1, any |-> FALSE, heap |-> st.heap, total |-> st.total]
    ELSE node_scan_entries(fs, st, self, dir, module_name, readdir(fs, dir), FALSE)


(***************************************************************************)
(* Symlink compatibility, on C strings.                                    *)
(***************************************************************************)
PATH_MAX == 4096

Min(a, b) == IF a <= b THEN a ELSE b

\* strncmp(a, b, n) == 0: the first n characters agree, a string that ends
\* before them ending the comparison
strncmp_eq(a, b, n) ==
    LET k == Min(n, Min(Len(a), Len(b))) IN
    /\ SubSeq(a, 1, k) = SubSeq(b, 1, k)
    /\ (k < n => Len(a) = k /\ Len(b) = k)

\* CharAt gone wrong: the terminating NUL is found wherever it is looked for
CharAt_nul(s, i) == "NUL"

\* s[i] of a C string, 0-based: the terminating NUL at i = strlen(s)
CharAt(s, i) == IF i < Len(s) THEN s[i + 1] ELSE "NUL"

\* utils.zig path_join on strings: [ok, s]
path_join_str(base, name) ==
    IF Len(name) = 0
    THEN [ok |-> Len(base) < PATH_MAX, s |-> base]
    ELSE LET use_slash == IF Len(base) = 0 \/ (Len(base) = 1 /\ base[1] = "/")
                          THEN TRUE
                          ELSE base[Len(base)] # "/"
             needed == Len(base) + (IF use_slash THEN 1 ELSE 0) + Len(name) + 1
         IN [ok |-> needed <= PATH_MAX,
             s |-> base \o (IF use_slash THEN <<"/">> ELSE <<>>) \o name]

\* the length of link_target without its trailing slashes
RECURSIVE StripSlashes(_, _)
StripSlashes(link_target, target_len) ==
    IF target_len > 0 /\ link_target[target_len] = "/"
    THEN StripSlashes(link_target, target_len - 1)
    ELSE target_len

\* module_dir and module_name may be null: has_dir, has_name
is_compatible_symlink(link_target, part_name, has_dir, module_dir, has_name, module_name) ==
    LET target_len == StripSlashes(link_target, Len(link_target))
        expected_relative == <<".", ".", "/">> \o part_name
        tmp == path_join_str(module_dir, module_name)
        expected_absolute == path_join_str(tmp.s, part_name)
    IN IF target_len = 0 THEN FALSE
       ELSE IF strncmp_eq(link_target, expected_relative, target_len)
               /\ CharAt(expected_relative, target_len) = "NUL"
       THEN TRUE
       ELSE IF has_dir /\ has_name /\ tmp.ok /\ expected_absolute.ok
               /\ strncmp_eq(link_target, expected_absolute.s, target_len)
               /\ CharAt(expected_absolute.s, target_len) = "NUL"
       THEN TRUE
       ELSE FALSE

(***************************************************************************)
(* The builder's passes over the module root.                              *)
(***************************************************************************)
\* the first enabled module that holds a directory part_name: [rc, path, module]
RECURSIVE find_real_partition_dir(_, _, _)
find_real_partition_dir(fs, part_name, mods) ==
    IF mods = <<>> THEN [rc |-> -1, path |-> NullPath, module |-> NullName]
    ELSE IF ~path_is_dir(fs, path_join(<<>>, Head(mods)))
    THEN find_real_partition_dir(fs, part_name, Tail(mods))
    ELSE IF module_is_disabled(fs, path_join(<<>>, Head(mods)))
    THEN find_real_partition_dir(fs, part_name, Tail(mods))
    ELSE IF path_is_dir(fs, path_join(path_join(<<>>, Head(mods)), part_name))
    THEN [rc |-> 0, path |-> path_join(path_join(<<>>, Head(mods)), part_name),
          module |-> Head(mods)]
    ELSE find_real_partition_dir(fs, part_name, Tail(mods))

\* resolve_replace gone wrong: the new directory takes the place of the link
\* whether or not its scan found content
resolve_replace_empty(st, system, part_name, new_part, real, r) ==
    IF r.rc # 0 THEN [rc |-> -1, heap |-> st.heap, total |-> r.total]
    ELSE [rc |-> 0,
          heap |-> node_child_append(
                      [node_child_detach(r.heap, system, part_name)
                          EXCEPT ![new_part].module_name = real.module],
                      system, new_part),
          total |-> r.total]

\* symlink_resolve_partition once new_part was scanned with result r: the symlink
\* node gives way to new_part when the scan found content
resolve_replace(st, system, part_name, new_part, real, r) ==
    IF r.rc # 0 THEN [rc |-> -1, heap |-> st.heap, total |-> r.total]
    ELSE IF ~r.any THEN [rc |-> 0, heap |-> st.heap, total |-> r.total]
    ELSE [rc |-> 0,
          heap |-> node_child_append(
                      [node_child_detach(r.heap, system, part_name)
                          EXCEPT ![new_part].module_name = real.module],
                      system, new_part),
          total |-> r.total]

\* symlink_resolve_partition once find_real_partition_dir returned real
resolve_real(fs, st, system, part_name, real) ==
    IF real.rc # 0 THEN [rc |-> 0, heap |-> st.heap, total |-> st.total]
    ELSE resolve_replace(
             st, system, part_name, Len(st.heap) + 1, real,
             node_scan_dir(fs,
                           [heap |-> Append(st.heap, node_new(part_name, NFT_DIRECTORY)),
                            total |-> st.total],
                           Len(st.heap) + 1, real.path, real.module))

\* symlink_resolve_partition once the child of system is the symlink node link
resolve_link(fs, st, system, part_name, link) ==
    IF ~is_compatible_symlink(lstat(fs, link.module_path).target,
                              NameChars(part_name), TRUE, S_module_dir,
                              link.module_name # NullName,
                              NameChars(link.module_name))
    THEN [rc |-> 0, heap |-> st.heap, total |-> st.total]
    ELSE resolve_real(fs, st, system, part_name,
                      find_real_partition_dir(fs, part_name, readdir(fs, <<>>)))

\* symlink_resolve_partition: [rc, heap, total]
resolve_child(fs, st, system, part_name, sys_child) ==
    IF sys_child = 0 THEN [rc |-> 0, heap |-> st.heap, total |-> st.total]
    ELSE IF st.heap[sys_child].type # NFT_SYMLINK
            \/ st.heap[sys_child].module_path = NullPath
    THEN [rc |-> 0, heap |-> st.heap, total |-> st.total]
    ELSE resolve_link(fs, st, system, part_name, st.heap[sys_child])

symlink_resolve_partition(fs, st, system, part_name) ==
    resolve_child(fs, st, system, part_name, node_child_find(st.heap, system, part_name))

BuiltinParts == <<"vendor", "system_ext", "product", "odm">>

\* the [heap, total] of a result
HeapTotal(r) == [heap |-> r.heap, total |-> r.total]

\* symlink_resolve_all_partition_links: a failed partition is logged and passed over
RECURSIVE symlink_resolve_all(_, _, _, _)
symlink_resolve_all(fs, st, system, parts) ==
    IF parts = <<>> THEN st
    ELSE symlink_resolve_all(
             fs, HeapTotal(symlink_resolve_partition(fs, st, system, Head(parts))),
             system, Tail(parts))

\* partition_scan_from_modules: rc 0 with content, 1 without, -1 on a failed scan
RECURSIVE partition_scan_from_modules(_, _, _, _, _, _)
RECURSIVE partition_scan_next(_, _, _, _, _, _)

partition_scan_from_modules(fs, st, part_name, parent_node, mods, has_any) ==
    IF mods = <<>>
    THEN [rc |-> IF has_any THEN 0 ELSE 1, heap |-> st.heap, total |-> st.total]
    ELSE IF ~path_is_dir(fs, path_join(<<>>, Head(mods)))
            \/ module_is_disabled(fs, path_join(<<>>, Head(mods)))
            \/ ~path_is_dir(fs, path_join(path_join(<<>>, Head(mods)), part_name))
    THEN partition_scan_from_modules(fs, st, part_name, parent_node, Tail(mods), has_any)
    ELSE partition_scan_next(
             fs, part_name, parent_node, mods, has_any,
             node_scan_dir(fs, st, parent_node,
                           path_join(path_join(<<>>, Head(mods)), part_name),
                           Head(mods)))

\* the loop of partition_scan_from_modules after node_scan_dir returned r
partition_scan_next(fs, part_name, parent_node, mods, has_any, r) ==
    IF r.rc # 0
    THEN [rc |-> -1, heap |-> r.heap, total |-> r.total]
    ELSE partition_scan_from_modules(fs, HeapTotal(r), part_name, parent_node,
                                     Tail(mods), has_any \/ r.any)

\* whether partition_promote_to_root moves system's child part_name below root
promote_wanted(live, part_name, need_symlink) ==
    /\ path_is_dir(live, path_join(<<>>, part_name))
    /\ (need_symlink => path_is_symlink(live, path_join(<<"system">>, part_name)))

partition_promote_to_root(live, heap, root, system, part_name, need_symlink) ==
    IF ~promote_wanted(live, part_name, need_symlink) THEN heap
    ELSE LET child == node_child_find(heap, system, part_name) IN
         IF child = 0 THEN heap
         ELSE node_child_append(node_child_detach(heap, system, part_name), root, child)

\* the table gone wrong: no partition needs /system/<name> to be a link
NeedSymlink_never(part_name) == FALSE

NeedSymlink(part_name) == part_name # "odm"

RECURSIVE promote_all(_, _, _, _, _)
promote_all(live, heap, root, system, parts) ==
    IF parts = <<>> THEN heap
    ELSE promote_all(live,
                     partition_promote_to_root(live, heap, root, system, Head(parts),
                                               NeedSymlink(Head(parts))),
                     root, system, Tail(parts))


(***************************************************************************)
(* The state of one run of the tool.                                       *)
(***************************************************************************)
VARIABLES
    cfg,             \* what the run was started on: modules, live layout, options
    modfs,           \* the file system below ctx->module_dir
    livefs,          \* the live root file system, as the mounts of the run show it
    work,            \* the file system below <tmp_root>/workdir
    pc,              \* where main stands
    todo,            \* what the loop of the builder at pc still has to visit
    nodes,           \* the heap of Node records; root is 1, system is 2
    has_any,         \* build_mount_tree's has_any
    stats,           \* ctx->stats
    failed_modules,  \* ctx->failed_modules
    extra_parts,     \* ctx->extra_parts
    sys_before,      \* the children of system when symlink resolution ended
    stack,           \* the activations of mm_apply_node_recursive on directories
    ret,             \* "run", or "err" while an error travels to the caller
    ops,             \* the mount calls and unmountable reports made so far
    hist,            \* history: the nodes whose application raised an error, the tmpfs
                     \* directories an error arose in, the live entries whose mirroring
                     \* failed, the nodes whose application was begun, the directories
                     \* applied outside a tmpfs, whether the workdir could not be mounted
    failsLeft,       \* how many system calls may still fail by injection
    rc               \* what magic_mount returned; "none" before it returns

vars == <<cfg, modfs, livefs, work, pc, todo, nodes, has_any, stats, failed_modules,
          extra_parts, sys_before, stack, ret, ops, hist, failsLeft, rc>>

Root == 1
System == 2

(***************************************************************************)
(* What a run may be started on.                                           *)
(***************************************************************************)
Templates == {"lib", "etc", "repl", "vdir", "vlnk", "vlnk_alt", "odd", "mismatch",
              "file", "empty", "nosys"}

ModuleChoices ==
    {[tpl |-> t, sentinel |-> "none"] : t \in Templates}
    \cup {[tpl |-> "vlnk", sentinel |-> s] : s \in {"disable", "remove", "skip_mount"}}
    \cup {[tpl |-> "etc", sentinel |-> "disable"]}

PartitionChoices ==
    {[tpl |-> t, sentinel |-> "none"] : t \in {"vdir", "vlnk", "vlnk_alt", "lib", "stock"}}
    \cup {[tpl |-> "vlnk", sentinel |-> "disable"]}

ListsOver(S, n) == UNION {[1..k -> S] : k \in 0..n}

Layouts == {"symlinked", "insystem", "both"}

\* the values of -p / partitions= the runs are started with, as token lists
TokenLists == {<<>>, <<"my_stock">>, <<"my_stock", "my_stock">>, <<"system">>,
               <<"vendor", "mi_ext">>, <<"mi_ext", "my_stock">>}

Configs ==
    {[mods |-> ms, layout |-> "symlinked", tokens |-> <<>>,
      enable_unmountable |-> TRUE, magic_tmp |-> TRUE]
        : ms \in ListsOver(ModuleChoices, MaxModules)}
    \cup
    {[mods |-> ms, layout |-> l, tokens |-> t,
      enable_unmountable |-> TRUE, magic_tmp |-> TRUE]
        : ms \in ListsOver(PartitionChoices, MaxModules), l \in Layouts, t \in TokenLists}
    \cup
    {[mods |-> <<c>>, layout |-> "symlinked", tokens |-> <<>>,
      enable_unmountable |-> u, magic_tmp |-> g]
        : c \in ModuleChoices, u \in BOOLEAN, g \in BOOLEAN}

\* the history of a run that has not applied anything
NoHist == [raised |-> {}, broken |-> {}, dropped |-> {}, tried |-> {}, plain |-> {},
           unread |-> {},
           mount_failed |-> FALSE]

ZeroStats == [modules_total |-> 0, nodes_total |-> 0, nodes_mounted |-> 0,
              nodes_skipped |-> 0, nodes_whiteout |-> 0, nodes_fail |-> 0]

Init ==
    /\ cfg \in Configs
    /\ modfs = ModFS(cfg.mods)
    /\ livefs = LiveFS(cfg.layout)
    /\ work = MkFS({})
    /\ pc = "parse"
    /\ todo = cfg.tokens
    /\ nodes = <<>>
    /\ has_any = FALSE
    /\ stats = ZeroStats
    /\ failed_modules = <<>>
    /\ extra_parts = <<>>
    /\ sys_before = <<>>
    /\ stack = <<>>
    /\ ret = "run"
    /\ ops = <<>>
    /\ hist = NoHist
    /\ failsLeft = MaxFail
    /\ rc = "none"


(***************************************************************************)
(* main: the extra partitions of -p / partitions=, token by token.         *)
(***************************************************************************)
Blacklist == {"bin", "etc", "data", "data_mirror", "sdcard", "tmp", "dev", "sys",
              "mnt", "proc", "d", "test", "product", "vendor", "system_ext", "odm"}

\* on a token of fewer than 16 characters: its first segment is looked up
extra_part_blacklisted(name) == name # "" /\ Head(Segments(name)) \in Blacklist

\* ctx->extra_parts after extra_partition_register(ctx, token, len)
extra_partition_register(parts, token) ==
    IF token = "" THEN parts
    ELSE IF extra_part_blacklisted(token) THEN parts
    ELSE Append(parts, token)

RegisterExtra ==
    /\ pc = "parse"
    /\ todo # <<>>
    /\ extra_parts' = extra_partition_register(extra_parts, Head(todo))
    /\ todo' = Tail(todo)
    /\ UNCHANGED <<cfg, modfs, livefs, work, pc, nodes, has_any, stats, failed_modules,
                   sys_before, stack, ret, ops, hist, failsLeft, rc>>

(***************************************************************************)
(* build_mount_tree, one loop iteration or one pass per step.              *)
(***************************************************************************)
\* magic_mount calls build_mount_tree: root and system are made, module_dir is opened
StartBuild ==
    /\ pc = "parse"
    /\ todo = <<>>
    /\ nodes' = <<node_new("", NFT_DIRECTORY), node_new("system", NFT_DIRECTORY)>>
    /\ todo' = readdir(modfs, <<>>)
    /\ pc' = "scan"
    /\ UNCHANGED <<cfg, modfs, livefs, work, has_any, stats, failed_modules, extra_parts,
                   sys_before, stack, ret, ops, hist, failsLeft, rc>>

\* build_mount_tree returns NULL: magic_mount logs "no modules" and returns 0
BuildFailed(total) ==
    /\ pc' = "done"
    /\ rc' = "0"
    /\ todo' = <<>>
    /\ stats' = [stats EXCEPT !.nodes_total = total]

\* the first loop of build_mount_tree after node_scan_dir returned r
Scanned(r) ==
    /\ nodes' = r.heap
    /\ stats' = [stats EXCEPT !.nodes_total = r.total, !.modules_total = @ + 1]
    /\ IF r.rc # 0
       THEN /\ pc' = "done"
            /\ rc' = "0"
            /\ todo' = <<>>
            /\ UNCHANGED has_any
       ELSE /\ todo' = Tail(todo)
            /\ has_any' = (has_any \/ r.any)
            /\ UNCHANGED <<pc, rc>>

\* module_scanned gone wrong: the system directory of the module is not asked for
module_scanned_any(fs, name) ==
    /\ path_is_dir(fs, path_join(<<>>, name))
    /\ ~module_is_disabled(fs, path_join(<<>>, name))

\* whether the first loop of build_mount_tree scans the entry name of module_dir
module_scanned(fs, name) ==
    /\ path_is_dir(fs, path_join(<<>>, name))
    /\ ~module_is_disabled(fs, path_join(<<>>, name))
    /\ path_is_dir(fs, path_join(path_join(<<>>, name), "system"))

\* one entry of module_dir in the first loop of build_mount_tree
ScanModule ==
    /\ pc = "scan"
    /\ todo # <<>>
    /\ IF ~module_scanned(modfs, Head(todo))
       THEN /\ todo' = Tail(todo)
            /\ UNCHANGED <<pc, nodes, has_any, stats, rc>>
       ELSE Scanned(node_scan_dir(modfs, [heap |-> nodes, total |-> stats.nodes_total],
                                  System, path_join(path_join(<<>>, Head(todo)), "system"),
                                  Head(todo)))
    /\ UNCHANGED <<cfg, modfs, livefs, work, failed_modules, extra_parts, sys_before,
                   stack, ret, ops, hist, failsLeft>>

\* build_mount_tree after symlink_resolve_all_partition_links left st
Resolved(st) ==
    /\ nodes' = st.heap
    /\ stats' = [stats EXCEPT !.nodes_total = st.total]
    /\ sys_before' = st.heap[System].children
    /\ pc' = "promote"
    /\ UNCHANGED <<todo, rc>>

\* the end of the first loop: the has_any test, the two nodes of root and system,
\* and symlink_resolve_all_partition_links
FinishScan ==
    /\ pc = "scan"
    /\ todo = <<>>
    /\ IF ~has_any
       THEN /\ BuildFailed(stats.nodes_total)
            /\ UNCHANGED <<nodes, sys_before>>
       ELSE Resolved(symlink_resolve_all(
                         modfs, [heap |-> nodes, total |-> stats.nodes_total + 2],
                         System, BuiltinParts \o extra_parts))
    /\ UNCHANGED <<cfg, modfs, livefs, work, has_any, failed_modules, extra_parts,
                   stack, ret, ops, hist, failsLeft>>

\* the loop that promotes the builtin partitions to root
PromoteBuiltin ==
    /\ pc = "promote"
    /\ nodes' = promote_all(livefs, nodes, Root, System, BuiltinParts)
    /\ pc' = "extras"
    /\ todo' = extra_parts
    /\ UNCHANGED <<cfg, modfs, livefs, work, has_any, stats, failed_modules, extra_parts,
                   sys_before, stack, ret, ops, hist, failsLeft, rc>>

\* the last loop of build_mount_tree after partition_scan_from_modules returned r
\* for the node child
Collected(child, r) ==
    IF r.rc = 0
    THEN /\ nodes' = node_child_append(r.heap, Root, child)
         /\ stats' = [stats EXCEPT !.nodes_total = r.total]
         /\ todo' = Tail(todo)
         /\ UNCHANGED <<pc, rc>>
    ELSE IF r.rc = 1
    THEN /\ nodes' = r.heap
         /\ stats' = [stats EXCEPT !.nodes_total = r.total]
         /\ todo' = Tail(todo)
         /\ UNCHANGED <<pc, rc>>
    ELSE /\ BuildFailed(r.total)
         /\ nodes' = r.heap

\* one extra partition in the last loop of build_mount_tree
ExtraPartition ==
    /\ pc = "extras"
    /\ todo # <<>>
    /\ IF ~path_is_dir(livefs, path_join(<<>>, Head(todo)))
       THEN /\ todo' = Tail(todo)
            /\ UNCHANGED <<pc, nodes, stats, rc>>
       ELSE Collected(Len(nodes) + 1,
                      partition_scan_from_modules(
                          modfs,
                          [heap |-> Append(nodes, node_new(Head(todo), NFT_DIRECTORY)),
                           total |-> stats.nodes_total],
                          Head(todo), Len(nodes) + 1, readdir(modfs, <<>>), FALSE))
    /\ UNCHANGED <<cfg, modfs, livefs, work, has_any, failed_modules, extra_parts,
                   sys_before, stack, ret, ops, hist, failsLeft>>

\* the end of build_mount_tree: system becomes a child of root
AttachSystem ==
    /\ pc = "extras"
    /\ todo = <<>>
    /\ nodes' = node_child_append(nodes, Root, System)
    /\ pc' = "prepare"
    /\ UNCHANGED <<cfg, modfs, livefs, work, todo, has_any, stats, failed_modules,
                   extra_parts, sys_before, stack, ret, ops, hist, failsLeft, rc>>



(***************************************************************************)
(* The mount applier: what its system calls do to the two file systems     *)
(* it writes, the workdir and the live root.  The workdir path of a node   *)
(* is <tmp_root>/workdir followed by the segments of its live path, so a   *)
(* path of work is the live path it stands for.                            *)
(***************************************************************************)
IsUnder(p, dir) == Len(p) >= Len(dir) /\ SubSeq(p, 1, Len(dir)) = dir

Put(fs, p, e) == [q \in DOMAIN fs \cup {p} |-> IF q = p THEN e ELSE fs[q]]

Origin(e, o) == [e EXCEPT !.org = o]

Parent(p) == SubSeq(p, 1, Len(p) - 1)

\* utils mkdir_p: dir and the ancestors it lacks become directories
mkdir_p(fs, dir) ==
    LET missing == {SubSeq(dir, 1, k) : k \in 0..Len(dir)} \ DOMAIN fs IN
    [q \in DOMAIN fs \cup missing |->
        IF q \in missing THEN Origin(E_Dir, "tmpfs") ELSE fs[q]]

\* open(2) creating the file: its directory must be there, and no directory in its place
open_ok(fs, p) ==
    /\ Parent(p) \in DOMAIN fs /\ fs[Parent(p)].kind = "dir"
    /\ (p \in DOMAIN fs => fs[p].kind # "dir")

open_create(fs, p) == IF p \in DOMAIN fs THEN fs ELSE Put(fs, p, Origin(E_Reg, "stub"))

\* symlink(2): its directory must be there and the name free
symlink_ok(fs, p) ==
    /\ p # <<>>
    /\ Parent(p) \in DOMAIN fs /\ fs[Parent(p)].kind = "dir"
    /\ p \notin DOMAIN fs

\* mount(2) MS_BIND of a regular file: the target is there and no directory
bind_file_ok(fs, target) == stat_ok(fs, target) /\ stat(fs, target).kind # "dir"

\* mount(2) MS_MOVE: the target is a directory
move_ok(fs, target) == path_is_dir(fs, target)

\* the live root after the tmpfs directory W of work was moved onto the directory P
MoveOnto(live, wk, W, P) ==
    LET at == SPath(live, P)
        kept == {q \in DOMAIN live : ~IsUnder(q, at)}
        rels == {SubSeq(q, Len(W) + 1, Len(q)) : q \in {x \in DOMAIN wk : IsUnder(x, W)}}
    IN [q \in kept \cup {at \o r : r \in rels} |->
            IF q \in kept THEN live[q]
            ELSE wk[W \o SubSeq(q, Len(at) + 1, Len(q))]]

\* a call the run made: tmp tells that dst is a path of the workdir
Op(op, src, dst, node, tmp) ==
    [op |-> op, src |-> src, dst |-> dst, node |-> node, tmp |-> tmp]

(***************************************************************************)
(* mm_mirror_entry.  st is [wk, ops, k, err]: k counts down to the entry   *)
(* whose mount, mkdir or symlink call fails (0: none fails).               *)
(***************************************************************************)
RECURSIVE mm_mirror_entry(_, _, _, _, _)
RECURSIVE mm_mirror_entries(_, _, _, _, _)
RECURSIVE mm_mirror_kind(_, _, _, _, _)

mm_mirror_entries(live, st, src, dst, names) ==
    IF names = <<>> \/ st.err THEN st
    ELSE mm_mirror_entries(live, mm_mirror_entry(live, st, src, dst, Head(names)),
                           src, dst, Tail(names))

\* st after one more call that may fail has succeeded
Counted(st) == [st EXCEPT !.k = IF @ > 0 THEN @ - 1 ELSE 0]

\* st after the call that was to fail has failed
Failed(st) == [st EXCEPT !.err = TRUE, !.k = 0]

\* mm_mirror_entry once lstat(src) returned e
mm_mirror_kind(live, st, src, dst, e) ==
    IF e.kind = "reg"
    THEN IF ~open_ok(st.wk, dst) THEN [st EXCEPT !.err = TRUE]
         ELSE IF st.k = 1 THEN Failed([st EXCEPT !.wk = open_create(@, dst)])
         ELSE Counted([st EXCEPT !.wk = Put(@, dst, Origin(e, "mirror")),
                                 !.ops = Append(@, Op("mirror_bind", src, dst, 0, TRUE))])
    ELSE IF e.kind = "dir"
    THEN IF st.k = 1 THEN Failed(st)
         ELSE mm_mirror_entries(
                  live,
                  Counted([st EXCEPT !.wk = IF dst \in DOMAIN @ THEN @
                                            ELSE Put(@, dst, Origin(e, "mirror"))]),
                  src, dst, readdir(live, src))
    ELSE IF e.kind = "lnk"
    THEN IF st.k = 1 \/ ~symlink_ok(st.wk, dst) THEN Failed(st)
         ELSE Counted([st EXCEPT !.wk = Put(@, dst, Origin(e, "mirror"))])
    ELSE st

\* mm_mirror_entry gone wrong: nothing is mirrored
mm_mirror_nothing(live, st, path, wdir, name) == st

mm_mirror_entry(live, st, path, wdir, name) ==
    IF ~lstat_ok(live, path_join(path, name)) THEN st
    ELSE mm_mirror_kind(live, st, path_join(path, name), path_join(wdir, name),
                        lstat(live, path_join(path, name)))

(***************************************************************************)
(* mm_check_need_tmpfs: [need, heap], the heap with the skip flags it set. *)
(***************************************************************************)
\* child_needs gone wrong: every child asks for a tmpfs
child_needs_always(live, t, rp) == TRUE

\* child_needs gone wrong: a Symlink child does not ask for a tmpfs
child_needs_nolink(live, t, rp) ==
    IF t = NFT_SYMLINK THEN FALSE
    ELSE IF t = NFT_WHITEOUT THEN path_exists(live, rp)
    ELSE node_type_from_stat(lstat(live, rp)) # t
            \/ node_type_from_stat(lstat(live, rp)) = NFT_SYMLINK

\* whether the child of type t whose live counterpart is rp asks for a tmpfs
child_needs(live, t, rp) ==
    IF t = NFT_SYMLINK THEN TRUE
    ELSE IF t = NFT_WHITEOUT THEN path_exists(live, rp)
    ELSE node_type_from_stat(lstat(live, rp)) # t
            \/ node_type_from_stat(lstat(live, rp)) = NFT_SYMLINK

\* the lstat of the live counterpart fails: the loop goes on with "continue"
child_passed(live, t, rp) == t \notin {NFT_SYMLINK, NFT_WHITEOUT} /\ ~lstat_ok(live, rp)

RECURSIVE mm_check_need_tmpfs(_, _, _, _, _)
mm_check_need_tmpfs(live, heap, node, path, cs) ==
    IF cs = <<>> THEN [need |-> FALSE, heap |-> heap]
    ELSE IF child_passed(live, heap[Head(cs)].type, path_join(path, heap[Head(cs)].name))
    THEN mm_check_need_tmpfs(live, heap, node, path, Tail(cs))
    ELSE IF ~child_needs(live, heap[Head(cs)].type, path_join(path, heap[Head(cs)].name))
    THEN mm_check_need_tmpfs(live, heap, node, path, Tail(cs))
    ELSE IF heap[node].module_path = NullPath
    THEN mm_check_need_tmpfs(live, [heap EXCEPT ![Head(cs)].skip = TRUE], node, path,
                             Tail(cs))
    ELSE [need |-> TRUE, heap |-> heap]

\* mm_setup_dir_tmpfs succeeds when the live directory or the module's can be stat'ed
setup_meta_ok(live, mfs, heap, node, path) ==
    \/ stat_ok(live, path)
    \/ heap[node].module_path # NullPath /\ stat_ok(mfs, heap[node].module_path)


(***************************************************************************)
(* The leaves of mm_apply_node_recursive.  Each operator tells what the    *)
(* application of node id at path does: err, and the files, calls and      *)
(* counters it leaves.  inj: the mount or symlink call fails by injection. *)
(***************************************************************************)
\* the result of a leaf that raised an error and left the workdir wk
LeafError(wk) ==
    [err |-> TRUE, work |-> wk, live |-> livefs, ops |-> ops, mounted |-> 0,
     whiteout |-> 0]

\* mm_apply_regular_file once the bind mount of the entry src succeeded
regular_bound(n, id, path, has_tmpfs, wk, src) ==
    [err |-> FALSE,
     work |-> IF has_tmpfs THEN Put(wk, path, src) ELSE wk,
     live |-> IF has_tmpfs THEN livefs ELSE Put(livefs, SPath(livefs, path), src),
     ops |-> ops \o <<Op("bind", n.module_path, path, id, has_tmpfs)>>
                 \o (IF ~(has_tmpfs /\ cfg.magic_tmp) /\ cfg.enable_unmountable
                     THEN <<Op("unmountable", path, path, id, FALSE)>>
                     ELSE <<>>)
                 \o <<Op("remount_ro", path, path, id, has_tmpfs)>>,
     mounted |-> 1,
     whiteout |-> 0]

\* mm_apply_regular_file once the file was opened in the workdir wk
regular_opened(n, id, path, has_tmpfs, inj, wk) ==
    IF n.module_path = NullPath \/ inj
       \/ ~bind_file_ok(IF has_tmpfs THEN wk ELSE livefs, path)
    THEN LeafError(wk)
    ELSE regular_bound(n, id, path, has_tmpfs, wk,
                       Origin(lstat(modfs, n.module_path), "module"))

\* mm_apply_regular_file once the parent directory was made in the workdir wk
regular_parent(n, id, path, inj, wk) ==
    IF ~open_ok(wk, path) THEN LeafError(wk)
    ELSE regular_opened(n, id, path, TRUE, inj, open_create(wk, path))

mm_apply_regular_file(id, path, has_tmpfs, inj) ==
    IF has_tmpfs THEN regular_parent(nodes[id], id, path, inj, mkdir_p(work, Parent(path)))
    ELSE regular_opened(nodes[id], id, path, FALSE, inj, work)

mm_apply_symlink(id, path, inj) ==
    IF nodes[id].module_path = NullPath \/ inj \/ ~symlink_ok(work, path)
    THEN LeafError(work)
    ELSE [err |-> FALSE,
          work |-> Put(work, path,
                       [lstat(modfs, nodes[id].module_path)
                           EXCEPT !.org = "clone", !.to = NoPath]),
          live |-> livefs,
          ops |-> Append(ops, Op("symlink", nodes[id].module_path, path, id, TRUE)),
          mounted |-> 1,
          whiteout |-> 0]

\* apply_whiteout gone wrong: the node is counted as mounted
apply_whiteout_mounted ==
    [err |-> FALSE, work |-> work, live |-> livefs, ops |-> ops, mounted |-> 1,
     whiteout |-> 0]

apply_whiteout ==
    [err |-> FALSE, work |-> work, live |-> livefs, ops |-> ops, mounted |-> 0,
     whiteout |-> 1]

\* the head of mm_apply_node_recursive on the directory n once create_tmp is decided:
\* mm_setup_dir_tmpfs, the bind of the workdir path on itself, and the opendir of
\* mm_process_dir_children.  inj is "none", "setup" (mkdir_p fails) or "bind"
enter_tmp(n, id, path, now_tmp, create_tmp, inj, heap, setup_err, listed) ==
    [err |-> setup_err \/ (create_tmp /\ inj = "bind") \/ (listed = "nodir" /\ now_tmp),
     heap |-> heap,
     work |-> IF now_tmp /\ inj # "setup" THEN mkdir_p(work, path) ELSE work,
     ops |-> IF create_tmp /\ ~setup_err /\ inj # "bind"
             THEN Append(ops, Op("bind_self", path, path, id, TRUE))
             ELSE ops,
     frame |-> [node |-> id, path |-> path, now_tmp |-> now_tmp,
                create_tmp |-> create_tmp, phase |-> "children",
                todo |-> IF listed = "dir" THEN readdir(livefs, path) ELSE <<>>,
                cur |-> 0]]

\* what mm_process_dir_children finds at path: nothing to list, a directory, or an
\* entry that opendir refuses
\* listing gone wrong: the replace flag of the node is not looked at
listing_all(n, path) ==
    IF ~path_exists(livefs, path) THEN "none"
    ELSE IF path_is_dir(livefs, path) THEN "dir"
    ELSE "nodir"

listing(n, path) ==
    IF ~path_exists(livefs, path) \/ n.replace THEN "none"
    ELSE IF path_is_dir(livefs, path) THEN "dir"
    ELSE "nodir"

enter_checked(n, id, path, has_tmpfs, inj, chk) ==
    enter_tmp(n, id, path, has_tmpfs \/ chk.need, chk.need, inj, chk.heap,
              (has_tmpfs \/ chk.need)
                  /\ (inj = "setup" \/ ~setup_meta_ok(livefs, modfs, nodes, id, path)),
              listing(n, path))

\* enter_dir gone wrong: a directory applied inside a tmpfs still checks whether
\* it needs one, and makes its own
enter_dir_nested(id, path, has_tmpfs, inj) ==
    IF nodes[id].replace /\ nodes[id].module_path # NullPath
    THEN enter_checked(nodes[id], id, path, FALSE, inj, [need |-> TRUE, heap |-> nodes])
    ELSE enter_checked(nodes[id], id, path, has_tmpfs, inj,
                       [need |-> has_tmpfs, heap |-> nodes])

enter_dir(id, path, has_tmpfs, inj) ==
    IF has_tmpfs
    THEN enter_checked(nodes[id], id, path, TRUE, inj, [need |-> FALSE, heap |-> nodes])
    ELSE IF nodes[id].replace /\ nodes[id].module_path # NullPath
    THEN enter_checked(nodes[id], id, path, FALSE, inj, [need |-> TRUE, heap |-> nodes])
    ELSE enter_checked(nodes[id], id, path, FALSE, inj,
                       mm_check_need_tmpfs(livefs, nodes, id, path, nodes[id].children))

\* module_mark_failed gone wrong: the name is appended without the search
module_mark_failed_always(list, name) == Append(list, name)

\* module_mark_failed: the list holds a name once
module_mark_failed(list, name) ==
    IF \E i \in DOMAIN list : list[i] = name THEN list ELSE Append(list, name)


(***************************************************************************)
(* magic_mount and mm_apply_node_recursive as steps.  A frame of stack is  *)
(* one activation on a directory: phase "children" is the loop of          *)
(* mm_process_dir_children over todo, the entries of the live directory,   *)
(* phase "remaining" the loop of mm_process_remaining_children over todo,  *)
(* the children of the node; cur is the child whose application was begun  *)
(* last.                                                                   *)
(***************************************************************************)
BuildVars == <<cfg, modfs, todo, has_any, extra_parts, sys_before>>

Top == stack[Len(stack)]

Running == pc = "apply" /\ ret = "run" /\ stack # <<>>

Injections(S) == IF failsLeft > 0 THEN {"none"} \cup S ELSE {"none"}

Spend(inj) == IF inj = "none" THEN failsLeft ELSE failsLeft - 1

\* the paths of the directories on the stack that made their own tmpfs
TmpfsRoots(stk) == {stk[i].node : i \in {j \in DOMAIN stk : stk[j].create_tmp}}

\* the history after the application of node id raised an error below the frames stk
Raise(id, stk) ==
    [hist EXCEPT !.raised = @ \cup {id}, !.broken = @ \cup TmpfsRoots(stk)]

\* the history h after the application of node id was begun
Tried(h, id) == [h EXCEPT !.tried = @ \cup {id}]

\* the history h after the directory id came to its loops, in a tmpfs or outside one
Listed(h, id, now_tmp) == IF now_tmp THEN h ELSE [h EXCEPT !.plain = @ \cup {id}]

\* the child the loop of the top frame turns to
Cand ==
    IF Top.phase = "children" THEN node_child_find(nodes, Top.node, Head(Top.todo))
    ELSE Head(Top.todo)

\* Applies gone wrong: the second loop does not look at done
Applies_again ==
    /\ Running
    /\ Top.todo # <<>>
    /\ Cand # 0
    /\ ~nodes[Cand].skip

\* Applies gone wrong: the loops do not look at skip
Applies_skipped ==
    /\ Running
    /\ Top.todo # <<>>
    /\ Cand # 0
    /\ Top.phase = "remaining" => ~nodes[Cand].done

\* the loop of the top frame applies Cand
Applies ==
    /\ Running
    /\ Top.todo # <<>>
    /\ Cand # 0
    /\ ~nodes[Cand].skip
    /\ Top.phase = "remaining" => ~nodes[Cand].done

\* the heap once mm_process_dir_children has set c.done
HeapDone(heap) ==
    IF Top.phase = "children" THEN [heap EXCEPT ![Cand].done = TRUE] ELSE heap

\* the stack with the loop of the top frame moved on, c being applied
Advance(c) ==
    [stack EXCEPT ![Len(stack)].todo = Tail(@), ![Len(stack)].cur = c]

\* the try of magic_mount on mkdir_p and on the mount of the tmpfs fails gone wrong:
\* the failure is passed over
try_failed_never(inj) == FALSE

\* the try of magic_mount on mkdir_p and on the mount of the tmpfs: a failure of
\* the call is returned as magic_mount's error
try_failed(inj) == inj # "none"

\* main: the summary is printed when magic_mount returned a code, not an error
summary_printed(r) == r \in {"0", "-1"}

\* magic_mount after build_mount_tree: the workdir is made and a tmpfs mounted on it
Prepare ==
    /\ pc = "prepare"
    /\ \E inj \in Injections({"mount"}) :
         /\ failsLeft' = Spend(inj)
         /\ hist' = [hist EXCEPT !.mount_failed = (inj # "none")]
         /\ IF ~try_failed(inj)
            THEN /\ work' = MkFS({ <<(<<>>), Origin(E_Dir, "tmpfs")>> })
                 /\ ops' = Append(ops, Op("tmpfs", <<>>, <<>>, 0, TRUE))
                 /\ pc' = "apply"
                 /\ UNCHANGED rc
            ELSE /\ pc' = "done"
                 /\ rc' = "error"
                 /\ UNCHANGED <<work, ops>>
    /\ UNCHANGED <<BuildVars, livefs, nodes, stats, failed_modules, stack, ret>>

\* the application of a Regular, Symlink or Whiteout child by the loop of the top frame
ApplyLeaf(type, r, inj) ==
    /\ Applies
    /\ nodes[Cand].type = type
    /\ failsLeft' = Spend(inj)
    /\ work' = r.work
    /\ livefs' = r.live
    /\ ops' = r.ops
    /\ stats' = [stats EXCEPT !.nodes_mounted = @ + r.mounted,
                              !.nodes_whiteout = @ + r.whiteout]
    /\ nodes' = HeapDone(nodes)
    /\ stack' = Advance(Cand)
    /\ ret' = IF r.err THEN "err" ELSE "run"
    /\ hist' = Tried(IF r.err THEN Raise(Cand, stack) ELSE hist, Cand)
    /\ UNCHANGED <<BuildVars, pc, failed_modules, rc>>

ApplyRegular ==
    \E inj \in Injections({"bind"}) :
        ApplyLeaf(NFT_REGULAR,
                  mm_apply_regular_file(Cand, path_join(Top.path, nodes[Cand].name),
                                        Top.now_tmp, inj # "none"),
                  inj)

ApplySymlink ==
    \E inj \in Injections({"symlink"}) :
        ApplyLeaf(NFT_SYMLINK,
                  mm_apply_symlink(Cand, path_join(Top.path, nodes[Cand].name),
                                   inj # "none"),
                  inj)

ApplyWhiteout == ApplyLeaf(NFT_WHITEOUT, apply_whiteout, "none")

\* mm_apply_node_recursive on the directory id has come to the loops over its
\* children, or has raised an error: r; stk is the stack of its caller
Entered(id, stk, heap, inj, r) ==
    /\ inj = "setup" => r.frame.now_tmp
    /\ inj = "bind" => r.frame.create_tmp
    /\ failsLeft' = Spend(inj)
    /\ work' = r.work
    /\ ops' = r.ops
    /\ nodes' = [i \in DOMAIN heap |-> [r.heap[i] EXCEPT !.done = heap[i].done]]
    /\ stack' = IF r.err THEN stk ELSE Append(stk, r.frame)
    /\ ret' = IF r.err THEN "err" ELSE "run"
    /\ hist' = Tried(IF r.err THEN Raise(id, stk) ELSE Listed(hist, id, r.frame.now_tmp), id)
    /\ UNCHANGED <<BuildVars, livefs, pc, stats, failed_modules, rc>>

Enter(id, path, has_tmpfs, stk, heap) ==
    \E inj \in Injections({"setup", "bind"}) :
        Entered(id, stk, heap, inj, enter_dir(id, path, has_tmpfs, inj))

\* magic_mount applies the root at "/"
ApplyRoot ==
    /\ pc = "apply" /\ ret = "run" /\ stack = <<>>
    /\ Enter(Root, <<>>, FALSE, <<>>, nodes)

\* the loop of the top frame applies a Directory child
EnterDirectory ==
    /\ Applies
    /\ nodes[Cand].type = NFT_DIRECTORY
    /\ Enter(Cand, path_join(Top.path, nodes[Cand].name), Top.now_tmp, Advance(Cand),
             HeapDone(nodes))

\* SkipEntry gone wrong: the live entry of the child is taken away
SkipEntry_dropped ==
    /\ Running /\ Top.phase = "children" /\ Top.todo # <<>>
    /\ Cand # 0 /\ nodes[Cand].skip
    /\ nodes' = [nodes EXCEPT ![Cand].done = TRUE]
    /\ stack' = [stack EXCEPT ![Len(stack)].todo = Tail(@)]
    /\ livefs' = [q \in {p \in DOMAIN livefs :
                            ~IsUnder(p, LPath(livefs, path_join(Top.path, Head(Top.todo))))}
                    |-> livefs[q]]
    /\ UNCHANGED <<BuildVars, work, pc, stats, failed_modules, ret, ops, hist,
                   failsLeft, rc>>

\* mm_process_dir_children on a live entry whose child has skip set
SkipEntry ==
    /\ Running /\ Top.phase = "children" /\ Top.todo # <<>>
    /\ Cand # 0 /\ nodes[Cand].skip
    /\ nodes' = [nodes EXCEPT ![Cand].done = TRUE]
    /\ stack' = [stack EXCEPT ![Len(stack)].todo = Tail(@)]
    /\ UNCHANGED <<BuildVars, livefs, work, pc, stats, failed_modules, ret, ops, hist,
                   failsLeft, rc>>

\* mm_process_dir_children on a live entry without a child, outside a tmpfs
PassEntry ==
    /\ Running /\ Top.phase = "children" /\ Top.todo # <<>>
    /\ Cand = 0 /\ ~Top.now_tmp
    /\ stack' = [stack EXCEPT ![Len(stack)].todo = Tail(@)]
    /\ UNCHANGED <<BuildVars, livefs, work, pc, nodes, stats, failed_modules, ret, ops,
                   hist, failsLeft, rc>>

\* mm_mirror_entry returned r, its k-th fallible call being the one to fail
Mirrored(k, r) ==
    /\ k > 0 => r.err /\ r.k = 0
    /\ hist' = IF r.err
               THEN [hist EXCEPT !.dropped = @ \cup {path_join(Top.path, Head(Top.todo))}]
               ELSE hist
    /\ work' = r.wk
    /\ ops' = r.ops
    /\ failsLeft' = IF k > 0 THEN failsLeft - 1 ELSE failsLeft

\* mm_process_dir_children on a live entry without a child, inside a tmpfs: the
\* entry is mirrored, and an error of mm_mirror_entry is dropped
MirrorEntry ==
    /\ Running /\ Top.phase = "children" /\ Top.todo # <<>>
    /\ Cand = 0 /\ Top.now_tmp
    /\ \E k \in 0..(IF failsLeft > 0
                    THEN Cardinality({q \in DOMAIN livefs :
                                        IsUnder(q, path_join(Top.path, Head(Top.todo)))})
                    ELSE 0) :
         Mirrored(k, mm_mirror_entry(livefs,
                                     [wk |-> work, ops |-> ops, k |-> k, err |-> FALSE],
                                     Top.path, Top.path, Head(Top.todo)))
    /\ stack' = [stack EXCEPT ![Len(stack)].todo = Tail(@)]
    /\ UNCHANGED <<BuildVars, livefs, pc, nodes, stats, failed_modules, ret, rc>>

\* mm_process_dir_children on an error of the directory iterator: "try iter.next()"
\* returns it whether or not the directory is in a tmpfs
ReadError ==
    /\ Running /\ Top.phase = "children" /\ failsLeft > 0
    /\ listing(nodes[Top.node], Top.path) = "dir"
    /\ failsLeft' = failsLeft - 1
    /\ stack' = SubSeq(stack, 1, Len(stack) - 1)
    /\ ret' = "err"
    /\ hist' = [Raise(Top.node, stack) EXCEPT !.unread = @ \cup {Top.node}]
    /\ UNCHANGED <<BuildVars, livefs, work, pc, nodes, stats, failed_modules, ops, rc>>

\* mm_process_dir_children returns: mm_process_remaining_children begins
EndChildren ==
    /\ Running /\ Top.phase = "children" /\ Top.todo = <<>>
    /\ stack' = [stack EXCEPT ![Len(stack)].phase = "remaining",
                              ![Len(stack)].todo = nodes[Top.node].children]
    /\ UNCHANGED <<BuildVars, livefs, work, pc, nodes, stats, failed_modules, ret, ops,
                   hist, failsLeft, rc>>

\* mm_process_remaining_children passes a child that has skip or done set
SkipRemaining ==
    /\ Running /\ Top.phase = "remaining" /\ Top.todo # <<>>
    /\ nodes[Cand].skip \/ nodes[Cand].done
    /\ stack' = [stack EXCEPT ![Len(stack)].todo = Tail(@)]
    /\ UNCHANGED <<BuildVars, livefs, work, pc, nodes, stats, failed_modules, ret, ops,
                   hist, failsLeft, rc>>


\* rethrows gone wrong: the catch never returns the error
rethrows_never(now_tmp) == FALSE

\* rethrows gone wrong: the catch always returns the error
rethrows_always(now_tmp) == TRUE

\* the catch of the two child loops: "if (now_tmp) return err"
rethrows(now_tmp) == now_tmp

\* blamed gone wrong: the catch blames the module of the directory
blamed_parent(heap, dir, c) == heap[dir].module_name

\* the module the catch of the child loops blames: the child's, else the directory's
blamed(heap, dir, c) ==
    IF heap[c].module_name # NullName THEN heap[c].module_name
    ELSE heap[dir].module_name

\* the tail gone wrong: the path is reported before the tmpfs is moved onto it
finalise_tmpfs_early(path, node, moved, report) ==
    <<Op("remount_ro", path, path, node, TRUE)>>
    \o (IF report THEN <<Op("unmountable", path, path, node, FALSE)>> ELSE <<>>)
    \o (IF moved THEN <<Op("move", path, path, node, FALSE),
                        Op("private", path, path, node, FALSE)>>
         ELSE <<>>)

\* the calls of the tail of mm_apply_node_recursive for a directory that made its
\* own tmpfs: a failed move ends them
finalise_tmpfs(path, node, moved, report) ==
    <<Op("remount_ro", path, path, node, TRUE)>>
    \o (IF moved THEN <<Op("move", path, path, node, FALSE),
                        Op("private", path, path, node, FALSE)>>
                       \o (IF report
                           THEN <<Op("unmountable", path, path, node, FALSE)>>
                           ELSE <<>>)
         ELSE <<>>)

\* the tail of mm_apply_node_recursive on a directory: the tmpfs it made is moved
\* onto the live path, and the directory is counted
LeaveDirectory ==
    /\ Running /\ Top.phase = "remaining" /\ Top.todo = <<>>
    /\ \E inj \in Injections({"move"}) :
         LET moved == Top.create_tmp /\ inj = "none" /\ move_ok(livefs, Top.path)
             err == Top.create_tmp /\ ~moved
             popped == SubSeq(stack, 1, Len(stack) - 1)
         IN /\ inj = "move" => Top.create_tmp
            /\ failsLeft' = Spend(inj)
            /\ stack' = popped
            /\ livefs' = IF moved THEN MoveOnto(livefs, work, Top.path, Top.path)
                         ELSE livefs
            /\ ops' = IF ~Top.create_tmp THEN ops
                      ELSE ops \o finalise_tmpfs(Top.path, Top.node, moved,
                                                 cfg.enable_unmountable)
            /\ stats' = IF err THEN stats
                        ELSE [stats EXCEPT !.nodes_mounted = @ + 1]
            /\ ret' = IF err THEN "err" ELSE "run"
            /\ hist' = IF err THEN [hist EXCEPT !.raised = @ \cup {Top.node}] ELSE hist
            /\ pc' = IF popped = <<>> /\ ~err THEN "teardown" ELSE pc
    /\ UNCHANGED <<BuildVars, work, nodes, failed_modules, rc>>

\* HandleError gone wrong: magic_mount returns the error of the root with "try",
\* past the unmount of the workdir
HandleError_try ==
    /\ pc = "apply" /\ ret = "err"
    /\ stats' = [stats EXCEPT !.nodes_fail = @ + 1]
    /\ IF stack = <<>>
       THEN /\ rc' = "-1"
            /\ pc' = "done"
            /\ ret' = "run"
            /\ UNCHANGED <<stack, failed_modules, hist>>
       ELSE LET mn == blamed(nodes, Top.node, Top.cur) IN
            /\ failed_modules' = IF mn # NullName
                                 THEN module_mark_failed(failed_modules, mn)
                                 ELSE failed_modules
            /\ IF rethrows(Top.now_tmp)
               THEN /\ stack' = SubSeq(stack, 1, Len(stack) - 1)
                    /\ hist' = [hist EXCEPT !.raised = @ \cup {Top.node}]
                    /\ UNCHANGED ret
               ELSE /\ ret' = "run"
                    /\ UNCHANGED <<stack, hist>>
            /\ UNCHANGED <<pc, rc>>
    /\ UNCHANGED <<BuildVars, livefs, work, nodes, ops, failsLeft>>

\* an error reaches the catch of the child loop of the top frame, or that of
\* magic_mount when the root itself failed
HandleError ==
    /\ pc = "apply" /\ ret = "err"
    /\ stats' = [stats EXCEPT !.nodes_fail = @ + 1]
    /\ IF stack = <<>>
       THEN /\ rc' = "-1"
            /\ pc' = "teardown"
            /\ ret' = "run"
            /\ UNCHANGED <<stack, failed_modules, hist>>
       ELSE LET mn == blamed(nodes, Top.node, Top.cur) IN
            /\ failed_modules' = IF mn # NullName
                                 THEN module_mark_failed(failed_modules, mn)
                                 ELSE failed_modules
            /\ IF rethrows(Top.now_tmp)
               THEN /\ stack' = SubSeq(stack, 1, Len(stack) - 1)
                    /\ hist' = [hist EXCEPT !.raised = @ \cup {Top.node}]
                    /\ UNCHANGED ret
               ELSE /\ ret' = "run"
                    /\ UNCHANGED <<stack, hist>>
            /\ UNCHANGED <<pc, rc>>
    /\ UNCHANGED <<BuildVars, livefs, work, nodes, ops, failsLeft>>

\* the end of magic_mount: the workdir is unmounted and removed
Teardown ==
    /\ pc = "teardown"
    /\ ops' = ops \o <<Op("umount", <<>>, <<>>, 0, TRUE), Op("rmdir", <<>>, <<>>, 0, TRUE)>>
    /\ rc' = IF rc = "none" THEN "0" ELSE rc
    /\ pc' = "done"
    /\ UNCHANGED <<BuildVars, livefs, work, nodes, stats, failed_modules, stack, ret,
                   hist, failsLeft>>

\* exit_code gone wrong: only an error of magic_mount makes the exit code 1, the
\* code it returns is not looked at
exit_code_errors(r) == IF r \in {"0", "-1"} THEN 0 ELSE 1

\* main: the exit code of the process after magic_mount ended with r ("error": it
\* returned an error)
exit_code(r) == IF r = "0" THEN 0 ELSE 1

Next ==
    \/ RegisterExtra \/ StartBuild \/ ScanModule \/ FinishScan \/ PromoteBuiltin
    \/ ExtraPartition \/ AttachSystem
    \/ Prepare \/ ApplyRoot \/ ApplyRegular \/ ApplySymlink \/ ApplyWhiteout
    \/ EnterDirectory \/ SkipEntry \/ PassEntry \/ MirrorEntry \/ EndChildren
    \/ SkipRemaining \/ LeaveDirectory \/ HandleError \/ Teardown \/ ReadError

Spec == Init /\ [][Next]_vars

(***************************************************************************)
(* build_mount_tree on its own, for extra partitions whose names are not   *)
(* plain: a leading or trailing '/', and "..".                             *)
(***************************************************************************)
OddTokenLists == {<<"/my_stock">>, <<"my_stock/">>, <<"..">>, <<"my_stock", "..">>}

InitBuild ==
    /\ cfg \in {[mods |-> ms, layout |-> l, tokens |-> t,
                  enable_unmountable |-> TRUE, magic_tmp |-> TRUE]
                    : ms \in ListsOver(PartitionChoices, MaxModules), l \in Layouts,
                      t \in OddTokenLists}
    /\ modfs = ModFS(cfg.mods)
    /\ livefs = LiveFS(cfg.layout)
    /\ work = MkFS({})
    /\ pc = "parse"
    /\ todo = cfg.tokens
    /\ nodes = <<>>
    /\ has_any = FALSE
    /\ stats = ZeroStats
    /\ failed_modules = <<>>
    /\ extra_parts = <<>>
    /\ sys_before = <<>>
    /\ stack = <<>>
    /\ ret = "run"
    /\ ops = <<>>
    /\ hist = NoHist
    /\ failsLeft = 0
    /\ rc = "none"

NextBuild ==
    \/ RegisterExtra \/ StartBuild \/ ScanModule \/ FinishScan \/ PromoteBuiltin
    \/ ExtraPartition \/ AttachSystem

SpecBuild == InitBuild /\ [][NextBuild]_vars

(***************************************************************************)
(* The builder over modules whose system holds links to partitions, or     *)
(* directories that hold directories only, or content in an extra          *)
(* partition only.                                                         *)
(***************************************************************************)
LinkChoices ==
    {[tpl |-> t, sentinel |-> "none"]
        : t \in {"vlnk", "vlnk_alt", "lnk_only", "lnk_empty", "stock_lnk", "vdir", "lib",
                 "deep", "deep_repl", "empty", "odd", "stock_only"}}
    \cup {[tpl |-> t, sentinel |-> "disable"] : t \in {"vlnk", "lnk_empty"}}

LinkTokenLists == {<<>>, <<"my_stock">>, <<"my_stock", "my_stock">>}

InitResolve ==
    /\ cfg \in {[mods |-> ms, layout |-> l, tokens |-> t,
                  enable_unmountable |-> TRUE, magic_tmp |-> TRUE]
                    : ms \in ListsOver(LinkChoices, MaxModules), l \in Layouts,
                      t \in LinkTokenLists}
    /\ modfs = ModFS(cfg.mods)
    /\ livefs = LiveFS(cfg.layout)
    /\ work = MkFS({})
    /\ pc = "parse"
    /\ todo = cfg.tokens
    /\ nodes = <<>>
    /\ has_any = FALSE
    /\ stats = ZeroStats
    /\ failed_modules = <<>>
    /\ extra_parts = <<>>
    /\ sys_before = <<>>
    /\ stack = <<>>
    /\ ret = "run"
    /\ ops = <<>>
    /\ hist = NoHist
    /\ failsLeft = 0
    /\ rc = "none"

SpecResolve == InitResolve /\ [][NextBuild]_vars


(***************************************************************************)
(* is_compatible_symlink on its own: the inputs are drawn in InitSymlink,  *)
(* CallSymlink applies the function and leaves its result in rc.           *)
(***************************************************************************)
\* how long the drawn link targets are at most
MaxTarget == 7

Alphabet == {"/", ".", "a"}

StringsUpTo(n) == UNION {[1..k -> Alphabet] : k \in 0..n}

S_slash_a == <<"/", "a">>
S_modA_vendor == S_module_dir \o <<"/">> \o NameChars("modA") \o <<"/">> \o NameChars("vendor")

\* the calls of the scenarios of the specification: partition vendor of module modA
NamedCalls ==
    {[target |-> t, part |-> NameChars("vendor"), dir |-> S_module_dir,
      has_name |-> TRUE, module |-> NameChars("modA")]
        : t \in {S_dotdot_vendor, S_dotdot_vendor_slash, S_modA_vendor,
                 S_modA_vendor \o <<"/", "/">>, S_vendor_alt, S_dotdot_vendor_alt,
                 S_modA_vendor \o <<"_", "a", "l", "t">>, <<"/">>,
                 SubSeq(S_dotdot_vendor, 1, 5), SubSeq(S_modA_vendor, 1, 20)}}

\* every short target over Alphabet, for the partitions a and aa of module a
DrawnCalls ==
    {[target |-> t, part |-> p, dir |-> S_slash_a, has_name |-> h, module |-> <<"a">>]
        : t \in StringsUpTo(MaxTarget), p \in {<<"a">>, <<"a", "a">>}, h \in BOOLEAN}

InitSymlink ==
    /\ cfg \in NamedCalls \cup DrawnCalls
    /\ modfs = MkFS({})
    /\ livefs = MkFS({})
    /\ work = MkFS({})
    /\ pc = "symlink"
    /\ todo = <<>>
    /\ nodes = <<>>
    /\ has_any = FALSE
    /\ stats = ZeroStats
    /\ failed_modules = <<>>
    /\ extra_parts = <<>>
    /\ sys_before = <<>>
    /\ stack = <<>>
    /\ ret = "run"
    /\ ops = <<>>
    /\ hist = NoHist
    /\ failsLeft = 0
    /\ rc = "none"

CallSymlink ==
    /\ pc = "symlink"
    /\ rc' = IF is_compatible_symlink(cfg.target, cfg.part, TRUE, cfg.dir,
                                      cfg.has_name, cfg.module)
             THEN "true" ELSE "false"
    /\ pc' = "returned"
    /\ UNCHANGED <<cfg, modfs, livefs, work, todo, nodes, has_any, stats, failed_modules,
                   extra_parts, sys_before, stack, ret, ops, hist, failsLeft>>

SpecSymlink == InitSymlink /\ [][CallSymlink]_vars

(***************************************************************************)
(* extra_partition_register on strings.  The repository holds the function *)
(* twice, in C (module_tree.c) and in the Zig build (module_tree.zig, the   *)
(* one main.zig imports); cfg.build says which of the two a run calls.     *)
(* InitRegister draws the calls, CallRegister makes one call.              *)
(***************************************************************************)
\* how long the drawn names are at most
MaxName == 3

\* how many calls a run makes at most
MaxCalls == 2

\* std.ascii.isWhitespace, on the characters the names are drawn from
isWhitespace(c) == c \in {" ", "\t", "\n", "\r", "\f"}

RECURSIVE TrimStart(_, _)
TrimStart(str, start) ==
    IF start < Len(str) /\ isWhitespace(str[start + 1])
    THEN TrimStart(str, start + 1)
    ELSE start

RECURSIVE TrimEnd(_, _, _)
TrimEnd(str, start, end) ==
    IF end > start /\ isWhitespace(str[end])
    THEN TrimEnd(str, start, end - 1)
    ELSE end

\* utils.zig str_trim: str[start..end]
str_trim(str) ==
    IF TrimStart(str, 0) = Len(str)
    THEN <<>>
    ELSE SubSeq(str, TrimStart(str, 0) + 1, TrimEnd(str, TrimStart(str, 0), Len(str)))

\* the blacklist array, the same sixteen names in both builds
blacklist ==
    { <<"b", "i", "n">>, <<"e", "t", "c">>, <<"d", "a", "t", "a">>,
      <<"d", "a", "t", "a", "_", "m", "i", "r", "r", "o", "r">>,
      <<"s", "d", "c", "a", "r", "d">>, <<"t", "m", "p">>, <<"d", "e", "v">>,
      <<"s", "y", "s">>, <<"m", "n", "t">>, <<"p", "r", "o", "c">>, <<"d">>,
      <<"t", "e", "s", "t">>, <<"p", "r", "o", "d", "u", "c", "t">>,
      <<"v", "e", "n", "d", "o", "r">>,
      <<"s", "y", "s", "t", "e", "m", "_", "e", "x", "t">>, <<"o", "d", "m">> }

\* sizeof(buf) of the C extra_part_blacklisted
BufSize == 16

\* while (*name == '/') name++: how many characters are skipped from k on
RECURSIVE SkipSlashes(_, _)
SkipSlashes(name, k) ==
    IF k < Len(name) /\ name[k + 1] = "/" THEN SkipSlashes(name, k + 1) ELSE k

\* the C copy loop: i when it stops at the NUL, at a '/' or at the full buffer
RECURSIVE CopyLen(_, _)
CopyLen(name, i) ==
    IF i < Len(name) /\ name[i + 1] # "/" /\ i + 1 < BufSize
    THEN CopyLen(name, i + 1)
    ELSE i

\* std.mem.split(u8, n, "/").first(): the length of n up to its first '/'
RECURSIVE FirstLen(_, _)
FirstLen(n, i) ==
    IF i < Len(n) /\ n[i + 1] # "/" THEN FirstLen(n, i + 1) ELSE i

\* buf of the C function for the name behind its leading slashes
BufOf(name) == SubSeq(name, 1, CopyLen(name, 0))

\* module_tree.c extra_part_blacklisted
extra_part_blacklisted_c(name) ==
    IF Len(name) = 0 THEN FALSE
    ELSE BufOf(SubSeq(name, SkipSlashes(name, 0) + 1, Len(name))) \in blacklist

\* first_part of the Zig function for n
FirstPart(n) == SubSeq(n, 1, FirstLen(n, 0))

\* module_tree.zig extra_part_blacklisted: one leading '/' is dropped
extra_part_blacklisted_zig(name) ==
    IF Len(name) = 0 THEN FALSE
    ELSE FirstPart(IF name[1] = "/" THEN Tail(name) ELSE name) \in blacklist

\* the C function after its copy of start: buf is the trimmed string
register_c(parts, buf) ==
    IF Len(buf) = 0 THEN parts
    ELSE IF extra_part_blacklisted_c(buf) THEN parts
    ELSE Append(parts, buf)

\* module_tree.c extra_partition_register(ctx, start, len)
extra_partition_register_c(parts, start) ==
    IF Len(start) = 0 THEN parts ELSE register_c(parts, str_trim(start))

\* module_tree.zig extra_partition_register: the slice std.mem.trim returns is
\* not kept, buf stays the copy of start
extra_partition_register_zig(parts, start) ==
    IF Len(start) = 0 THEN parts
    ELSE IF extra_part_blacklisted_zig(start) THEN parts
    ELSE Append(parts, start)

Builds == {"c", "zig"}

RegAlphabet == {"/", " ", "d", "D"}

\* the names of the scenarios, and names around them
NamedNames ==
    { <<>>, <<" ", " ">>, <<"/", "b", "i", "n">>, NameChars("vendor"),
      NameChars("mi_ext"), NameChars("my_stock"),
      <<"V", "e", "n", "d", "o", "r">>, <<"/", "/">> \o NameChars("vendor"),
      <<" ">> \o NameChars("vendor") \o <<" ">>,
      NameChars("vendor") \o <<"/", "d">>,
      NameChars("my_stock") \o <<"/">> \o NameChars("vendor"),
      <<"\t", "s", "y", "s", "\n">>,
      NameChars("system_ext"),
      <<"d", "a", "t", "a", "_", "m", "i", "r", "r", "o", "r", "_", "c", "o", "p", "y", "1">> }

DrawnNames == UNION {[1..k -> RegAlphabet] : k \in 0..MaxName}

RegisterCalls == UNION {[1..k -> NamedNames \cup DrawnNames] : k \in 1..MaxCalls}

InitRegister ==
    /\ cfg \in {[build |-> b, calls |-> c] : b \in Builds, c \in RegisterCalls}
    /\ modfs = MkFS({})
    /\ livefs = MkFS({})
    /\ work = MkFS({})
    /\ pc = "register"
    /\ todo = cfg.calls
    /\ nodes = <<>>
    /\ has_any = FALSE
    /\ stats = ZeroStats
    /\ failed_modules = <<>>
    /\ extra_parts = <<>>
    /\ sys_before = <<>>
    /\ stack = <<>>
    /\ ret = "run"
    /\ ops = <<>>
    /\ hist = NoHist
    /\ failsLeft = 0
    /\ rc = "none"

CallRegister ==
    /\ pc = "register"
    /\ todo # <<>>
    /\ extra_parts' = IF cfg.build = "c"
                      THEN extra_partition_register_c(extra_parts, Head(todo))
                      ELSE extra_partition_register_zig(extra_parts, Head(todo))
    /\ todo' = Tail(todo)
    /\ UNCHANGED <<cfg, modfs, livefs, work, pc, nodes, has_any, stats, failed_modules,
                   sys_before, stack, ret, ops, hist, failsLeft, rc>>

SpecRegister == InitRegister /\ [][CallRegister]_vars

(***************************************************************************)
(* module_mark_failed on its own: InitMark draws the names of the calls,   *)
(* CallMark makes one call.                                                *)
(***************************************************************************)
\* how many calls a run makes at most
MaxMarks == 4

MarkCalls == UNION {[1..k -> {"modA", "modB", "modC"}] : k \in 1..MaxMarks}

InitMark ==
    /\ cfg \in {[calls |-> c] : c \in MarkCalls}
    /\ modfs = MkFS({})
    /\ livefs = MkFS({})
    /\ work = MkFS({})
    /\ pc = "mark"
    /\ todo = cfg.calls
    /\ nodes = <<>>
    /\ has_any = FALSE
    /\ stats = ZeroStats
    /\ failed_modules = <<>>
    /\ extra_parts = <<>>
    /\ sys_before = <<>>
    /\ stack = <<>>
    /\ ret = "run"
    /\ ops = <<>>
    /\ hist = NoHist
    /\ failsLeft = 0
    /\ rc = "none"

CallMark ==
    /\ pc = "mark"
    /\ todo # <<>>
    /\ failed_modules' = module_mark_failed(failed_modules, Head(todo))
    /\ todo' = Tail(todo)
    /\ UNCHANGED <<cfg, modfs, livefs, work, pc, nodes, has_any, stats, extra_parts,
                   sys_before, stack, ret, ops, hist, failsLeft, rc>>

SpecMark == InitMark /\ [][CallMark]_vars

(***************************************************************************)
(* utils.zig path_join on its own: InitJoin draws base and name, CallJoin  *)
(* leaves the error or the joined string in rc.                            *)
(***************************************************************************)
\* how long the drawn bases are at most
MaxBase == 3

\* how long the drawn names are at most
MaxJoined == 2

\* how far from PATH_MAX the lengths of the long bases are
Margin == 3

\* the base of n characters "a" behind one '/'
LongBase(n) == [i \in 1..n |-> IF i = 1 THEN "/" ELSE "a"]

JoinBases ==
    StringsUpTo(MaxBase)
    \cup {LongBase(n) : n \in (PATH_MAX - Margin)..(PATH_MAX + 1)}
    \cup {Append(LongBase(n), "/") : n \in (PATH_MAX - Margin)..(PATH_MAX - 1)}

InitJoin ==
    /\ cfg \in {[base |-> b, name |-> n] : b \in JoinBases, n \in StringsUpTo(MaxJoined)}
    /\ modfs = MkFS({})
    /\ livefs = MkFS({})
    /\ work = MkFS({})
    /\ pc = "join"
    /\ todo = <<>>
    /\ nodes = <<>>
    /\ has_any = FALSE
    /\ stats = ZeroStats
    /\ failed_modules = <<>>
    /\ extra_parts = <<>>
    /\ sys_before = <<>>
    /\ stack = <<>>
    /\ ret = "run"
    /\ ops = <<>>
    /\ hist = NoHist
    /\ failsLeft = 0
    /\ rc = [ok |-> FALSE, s |-> <<>>]

CallJoin ==
    /\ pc = "join"
    /\ rc' = path_join_str(cfg.base, cfg.name)
    /\ pc' = "joined"
    /\ UNCHANGED <<cfg, modfs, livefs, work, todo, nodes, has_any, stats, failed_modules,
                   extra_parts, sys_before, stack, ret, ops, hist, failsLeft>>

SpecJoin == InitJoin /\ [][CallJoin]_vars

\* a string without its trailing slashes
RECURSIVE Stripped(_)
Stripped(t) ==
    IF t # <<>> /\ t[Len(t)] = "/" THEN Stripped(SubSeq(t, 1, Len(t) - 1)) ELSE t

\* C10: is_compatible_symlink returns true if and only if the target without its
\* trailing slashes is not empty and is exactly "../P" or, a module being named,
\* exactly "<moduleDir>/<module>/P"; a proper prefix or an extension of either
\* (as "/vendor_alt" and "../vendor_alt" for vendor) is rejected.
C10_ExactMatch ==
    pc = "returned" =>
        (rc = "true" <=>
            /\ Stripped(cfg.target) # <<>>
            /\ \/ Stripped(cfg.target) = <<".", ".", "/">> \o cfg.part
               \/ /\ cfg.has_name
                  /\ Stripped(cfg.target) =
                         cfg.dir \o <<"/">> \o cfg.module \o <<"/">> \o cfg.part)

\* a call with the absolute target of the scenario, followed by slashes, was accepted
C10_Witness ==
    /\ pc = "returned"
    /\ rc = "true"
    /\ cfg.target = S_modA_vendor \o <<"/", "/">>


(***************************************************************************)
(* What the claims speak of.                                               *)
(***************************************************************************)
\* build_mount_tree has returned the tree: system is a child of root
TreeBuilt ==
    /\ nodes # <<>>
    /\ \E i \in DOMAIN nodes[Root].children : nodes[Root].children[i] = System

Children(heap, id) == {heap[id].children[i] : i \in DOMAIN heap[id].children}

\* the nodes of the subtrees below the nodes S, and S
RECURSIVE Reach(_, _)
Reach(heap, S) ==
    IF UNION {Children(heap, i) : i \in S} \subseteq S THEN S
    ELSE Reach(heap, S \cup UNION {Children(heap, i) : i \in S})

\* the nodes of the tree with the live path each is applied at
RECURSIVE PathsFrom(_, _, _)
PathsFrom(heap, id, path) ==
    {<<id, path>>}
    \cup UNION {PathsFrom(heap, c, path_join(path, heap[c].name)) : c \in Children(heap, id)}

TreePaths == PathsFrom(nodes, Root, <<>>)

\* the calls of kind op made so far
Calls(op) == {i \in DOMAIN ops : ops[i].op = op}

\* the live root as the run found it
Live0 == LiveFS(cfg.layout)

\* C1: when the application of a tree child at any depth inside the tmpfs a
\* Directory made for itself (create_tmp) raises an error, that tmpfs is never
\* moved onto the live path, and the application of the Directory ends with the
\* error: while the error travels the Directory is still being applied, and
\* afterwards it is among the nodes whose application raised an error.
C1_NoMoveAfterError ==
    \A d \in hist.broken :
        /\ \A i \in Calls("move") : ops[i].node # d
        /\ \/ d \in hist.raised
           \/ ret = "err" /\ \E i \in DOMAIN stack : stack[i].node = d

\* a run has ended in which a Regular node two levels below a tmpfs root failed, and
\* the error went up through the directory between them
C1_Witness ==
    /\ pc = "done"
    /\ \E d \in hist.broken : \E m \in Children(nodes, d) : \E c \in Children(nodes, m) :
         /\ nodes[c].type = NFT_REGULAR
         /\ {c, m, d} \subseteq hist.raised

\* C2: in the tree build_mount_tree returns no node has two children of one name.
C2_UniqueNames ==
    TreeBuilt =>
        \A n \in Reach(nodes, {Root}) :
            \A i, j \in DOMAIN nodes[n].children :
                i # j => nodes[nodes[n].children[i]].name # nodes[nodes[n].children[j]].name

\* C3: at every point of a run the counters obey
\* nodes_mounted + nodes_whiteout + nodes_skipped + nodes_fail <= nodes_total.
C3_CounterBound ==
    stats.nodes_mounted + stats.nodes_whiteout + stats.nodes_skipped + stats.nodes_fail
        <= stats.nodes_total


\* the module at place i of the module root carries no sentinel file
Enabled(i) == cfg.mods[i].sentinel = "none"

\* the places of the module root whose module is enabled and holds the directory dir
Providers(dir) ==
    {i \in DOMAIN cfg.mods : Enabled(i) /\ KindAt(modfs, <<ModuleName(i), dir>>, "dir")}

\* node n was made of the entry of its module_path, and by the first enabled module
\* that holds an entry at that path
FirstWins(n) ==
    \E j \in DOMAIN cfg.mods :
        /\ n.module_path[1] = ModuleName(j)
        /\ n.module_name = ModuleName(j)
        /\ n.module_path \in DOMAIN modfs
        /\ n.type = node_type_from_stat(modfs[n.module_path])
        /\ n.replace = (modfs[n.module_path].kind = "dir"
                            /\ \/ modfs[n.module_path].opaque
                               \/ Append(n.module_path, ".replace") \in DOMAIN modfs)
        /\ \A i \in 1..(j - 1) :
              Enabled(i) => ~SupportedAt(modfs, <<ModuleName(i)>> \o Tail(n.module_path))

\* a step of the builder leaves the attributes of the nodes it found as they were,
\* and a scan only appends children
AttributesKept ==
    pc \in {"scan", "promote", "extras"} /\ nodes # <<>> =>
        \A n \in DOMAIN nodes :
            /\ n \in DOMAIN nodes'
            /\ nodes'[n].name = nodes[n].name
            /\ nodes'[n].type = nodes[n].type
            /\ nodes'[n].module_path = nodes[n].module_path
            /\ nodes'[n].module_name = nodes[n].module_name
            /\ nodes'[n].replace = nodes[n].replace
            /\ pc = "scan" /\ pc' = "scan" =>
                  /\ Len(nodes'[n].children) >= Len(nodes[n].children)
                  /\ SubSeq(nodes'[n].children, 1, Len(nodes[n].children))
                        = nodes[n].children

\* C4: a node made of a module's entry has the type, module_path, module_name and
\* replace flag of the first enabled module, in the order the module root is read,
\* that holds an entry at its path; scanning a later module changes no attribute
\* of a node that exists and only appends children.
C4_FirstModuleWins ==
    /\ [](\A n \in DOMAIN nodes : nodes[n].module_path # NullPath => FirstWins(nodes[n]))
    /\ [][AttributesKept]_vars

\* a tree was built in which a later enabled module holds an entry of another kind
\* at the path of a node, and a node of the later module hangs below a node of the
\* earlier one
C4_Witness ==
    /\ TreeBuilt
    /\ \E n \in DOMAIN nodes : \E k \in DOMAIN cfg.mods :
         /\ nodes[n].module_path # NullPath
         /\ nodes[n].module_name = ModuleName(1) /\ k > 1 /\ Enabled(k)
         /\ SupportedAt(modfs, <<ModuleName(k)>> \o Tail(nodes[n].module_path))
         /\ modfs[<<ModuleName(k)>> \o Tail(nodes[n].module_path)].kind
               # modfs[nodes[n].module_path].kind
    /\ \E n \in DOMAIN nodes : \E c \in Children(nodes, n) :
         /\ nodes[n].module_name = ModuleName(1)
         /\ nodes[c].module_name = ModuleName(2)

\* C5: a module that holds disable, remove or skip_mount is left out: no node has
\* it as module_name or a module_path inside it, whichever pass of the builder
\* made the node, and modules_total counts only enabled modules that hold system.
C5_DisabledOmitted ==
    /\ \A n \in DOMAIN nodes : \A i \in DOMAIN cfg.mods :
          ~Enabled(i) =>
              /\ nodes[n].module_name # ModuleName(i)
              /\ nodes[n].module_path # NullPath => nodes[n].module_path[1] # ModuleName(i)
    /\ stats.modules_total <= Cardinality(Providers("system"))
    /\ TreeBuilt => stats.modules_total = Cardinality(Providers("system"))

\* a tree was built past a disabled first module that holds system, a compatible
\* vendor link, the vendor directory and content for the extra partition: the three
\* passes took all of it from the second module
C5_Witness ==
    /\ TreeBuilt
    /\ ~Enabled(1) /\ cfg.mods[1].tpl = "vlnk"
    /\ stats.modules_total = 1
    /\ \E n, m \in DOMAIN nodes :
         /\ nodes[n].name = "x" /\ nodes[n].module_name = ModuleName(2)
         /\ nodes[m].name = "y" /\ nodes[m].module_name = ModuleName(2)

\* the Directory nodes of the tree marked replace that a module brought, with
\* their live paths
ReplaceDirs ==
    {x \in TreePaths : /\ nodes[x[1]].type = NFT_DIRECTORY
                       /\ nodes[x[1]].replace
                       /\ nodes[x[1]].module_path # NullPath}

\* the tmpfs holding the node d at P has been moved onto the live system
MovedWith(d, P) ==
    \E i \in Calls("move") : IsUnder(P, ops[i].dst) /\ d \in Reach(nodes, {ops[i].node})

TmpfsMoves == {i \in Calls("move") : ~nodes[ops[i].node].replace}

ChildNamed(d, e) == {c \in Children(nodes, d) : nodes[c].name = e}

\* the live entry q, below P, is a regular file, a directory or a symbolic link, and
\* so is every directory between P and q
Mirrorable(P, q) ==
    \A k \in (Len(P) + 1)..Len(q) : Live0[SubSeq(q, 1, k)].kind \in {"reg", "dir", "lnk"}

\* the live entry q was mirrored: a regular file by a bind mount of q itself
MirrorShown(q) ==
    /\ q \in DOMAIN livefs
    /\ livefs[q].org = "mirror"
    /\ livefs[q].kind = Live0[q].kind
    /\ Live0[q].kind = "reg" =>
          \E i \in Calls("mirror_bind") : ops[i].src = q /\ ops[i].dst = q

\* at q there is what the tree child c brings, and nothing of the live system
ChildShown(c, q) ==
    CASE nodes[c].type = NFT_REGULAR ->
            q \in DOMAIN livefs /\ livefs[q].org = "module" /\ livefs[q].kind = "reg"
      [] nodes[c].type = NFT_SYMLINK ->
            q \in DOMAIN livefs /\ livefs[q].org = "clone" /\ livefs[q].kind = "lnk"
      [] nodes[c].type = NFT_WHITEOUT -> q \notin DOMAIN livefs
      [] OTHER ->
            q \in DOMAIN livefs /\ livefs[q].kind = "dir"
                /\ livefs[q].org \notin {"orig", "mirror"}

\* the live entries below P that the tmpfs of d moved onto P has to show
Owed(d, P) ==
    {q \in DOMAIN Live0 :
        /\ IsUnder(q, P) /\ Len(q) > Len(P)
        /\ ChildNamed(d, q[Len(P) + 1]) = {}}

Plain ==
    /\ TreeBuilt
    /\ \A x \in TreePaths :
          x[1] # Root =>
              /\ nodes[x[1]].type \in {NFT_REGULAR, NFT_DIRECTORY}
              /\ ~nodes[x[1]].replace
              /\ lstat_ok(Live0, x[2])
              /\ node_type_from_stat(lstat(Live0, x[2])) = nodes[x[1]].type

\* the calls of kind op made for node id
CallsFor(op, id) == {i \in Calls(op) : ops[i].node = id}

\* no tmpfs directory, no move; one bind mount on the live path of each Regular
\* node, one markUnmountable of it when enabled; no other call on a live path
PlainCalls ==
    /\ Calls("bind_self") = {} /\ Calls("move") = {}
    /\ Calls("symlink") = {} /\ Calls("mirror_bind") = {}
    /\ \A x \in TreePaths :
          nodes[x[1]].type = NFT_REGULAR =>
              /\ Cardinality(CallsFor("bind", x[1])) = 1
              /\ \A i \in CallsFor("bind", x[1]) : ops[i].dst = x[2] /\ ~ops[i].tmp
              /\ Cardinality(CallsFor("unmountable", x[1]))
                    = IF cfg.enable_unmountable THEN 1 ELSE 0
              /\ \A i \in CallsFor("unmountable", x[1]) : ops[i].dst = x[2]
    /\ \A i \in DOMAIN ops :
          ~ops[i].tmp => \E x \in TreePaths :
                            /\ nodes[x[1]].type = NFT_REGULAR
                            /\ x[1] = ops[i].node /\ x[2] = ops[i].dst

\* a run over a plain tree has ended and no application failed
PlainDone == pc = "done" /\ rc = "0" /\ stats.nodes_fail = 0 /\ Plain

BuiltinTable ==
    {<<"vendor", TRUE>>, <<"system_ext", TRUE>>, <<"product", TRUE>>, <<"odm", FALSE>>}

\* /name is a live directory, and /system/name a live link where that is asked for
Promotable(b) ==
    /\ KindAt(Live0, <<b[1]>>, "dir")
    /\ b[2] => KindAt(Live0, <<"system", b[1]>>, "lnk")

\* C9: the child of system named as a builtin partition, as the resolution of the
\* links left it, is a child of root and no child of system if and only if
\* /name is a live directory and /system/name a live link where the table asks
\* for one (it stays a child of system otherwise); the calls made for the nodes
\* of a promoted subtree are on paths below /name, those of a subtree left in
\* place on paths below /system/name.
C9_Promotion ==
    TreeBuilt =>
        \A b \in BuiltinTable : \A k \in DOMAIN sys_before :
            nodes[sys_before[k]].name = b[1] =>
                /\ (/\ sys_before[k] \in Children(nodes, Root)
                    /\ sys_before[k] \notin Children(nodes, System)) <=> Promotable(b)
                /\ ~Promotable(b) =>
                      /\ sys_before[k] \in Children(nodes, System)
                      /\ sys_before[k] \notin Children(nodes, Root)
                /\ \A i \in DOMAIN ops :
                      ops[i].node \in Reach(nodes, {sys_before[k]}) =>
                          IF Promotable(b)
                          THEN IsUnder(ops[i].dst, <<b[1]>>)
                          ELSE IsUnder(ops[i].dst, <<"system", b[1]>>)

\* a run has ended in which the vendor directory that took the place of a
\* compatible link was promoted, and its file mounted on /vendor/etc/x
C9_Witness ==
    /\ pc = "done"
    /\ \E k \in DOMAIN sys_before :
         /\ nodes[sys_before[k]].name = "vendor"
         /\ nodes[sys_before[k]].module_path = NullPath
         /\ sys_before[k] \in Children(nodes, Root)
         /\ \E i \in Calls("bind") :
               /\ ops[i].node \in Reach(nodes, {sys_before[k]})
               /\ ops[i].dst = <<"vendor", "etc", "x">>


\* the directories applied outside a tmpfs whose application has ended
PlainEnded == {d \in hist.plain : \A i \in DOMAIN stack : stack[i].node # d}

\* C11: an error of a child under a Directory applied outside a tmpfs is counted
\* once in nodes_fail (the counter is the number of nodes whose application
\* raised an error, less the one whose error has not reached its catch yet), the
\* Directory goes on to apply every other child that has no skip flag, and its own
\* application raises no error.
C11_SiblingsContinue ==
    /\ stats.nodes_fail
          = Cardinality(hist.raised) - (IF pc = "apply" /\ ret = "err" THEN 1 ELSE 0)
    /\ hist.plain \cap hist.raised \subseteq hist.unread
    /\ \A d \in PlainEnded \ hist.unread :
          \A c \in Children(nodes, d) : nodes[c].skip \/ c \in hist.tried

\* a run has ended in which the application of a child of a Directory outside a tmpfs
\* raised an error and a later child of that Directory was applied without one
C11_Witness ==
    /\ pc = "done" /\ rc = "0"
    /\ stats.nodes_fail = 1
    /\ \E d \in PlainEnded :
         \E i, j \in DOMAIN nodes[d].children :
             /\ i < j
             /\ nodes[d].children[i] \in hist.raised
             /\ nodes[d].children[j] \in hist.tried \ hist.raised
             /\ \E k \in DOMAIN ops : ops[k].node \in Reach(nodes, {nodes[d].children[j]})


\* the run has ended without a tree: build_mount_tree returned NULL
NoTree == pc = "done" /\ ~TreeBuilt

\* magic_mount returned 0 and the process exits with 0; no workdir was made or
\* mounted, no node applied, no call made, the live system is as it was found
Skipped ==
    /\ rc = "0" /\ exit_code(rc) = 0
    /\ ops = <<>> /\ DOMAIN work = {}
    /\ hist.tried = {} /\ stack = <<>>
    /\ livefs = Live0
    /\ stats.nodes_mounted = 0 /\ stats.nodes_fail = 0

\* C12 as the specification states it: when the build yields no tree, for whatever
\* reason, the run is skipped with exit code 0 and modules_total is 0.
C12_NoContentZero ==
    /\ Providers("system") = {} => (pc = "done" => NoTree)
    /\ NoTree => Skipped /\ stats.modules_total = 0

\* C12: when the build yields no tree the run is skipped with exit code 0, and no
\* enabled module holding system/ always ends so; modules_total counts the
\* enabled modules holding system/ that were scanned: it is 0 exactly when
\* there is none, and not 0 when such a module brought no effective content.
C12_NoContentSkipped ==
    /\ Providers("system") = {} => (pc = "done" => NoTree)
    /\ NoTree =>
          /\ Skipped
          /\ stats.modules_total <= Cardinality(Providers("system"))
          /\ stats.modules_total = 0 <=> Providers("system") = {}

\* a run over a module root holding one module without system/ has ended
C12_Witness ==
    /\ NoTree /\ Skipped
    /\ Len(cfg.mods) = 1 /\ Enabled(1)
    /\ Providers("system") = {}
    /\ stats.modules_total = 0


\* the pairs <<parent, child>> of the tree
TreeEdges == {x \in Reach(nodes, {Root}) \X Reach(nodes, {Root}) : x[2] \in Children(nodes, x[1])}

\* every node of the tree had its application begun, but for those with the skip
\* flag, those below a node that was not applied, and those left when the
\* application of their Directory ended with an error, in a tmpfs or because the
\* live directory could not be read to its end
Attempted ==
    /\ Root \in hist.tried
    /\ \A x \in TreeEdges :
          \/ x[2] \in hist.tried
          \/ nodes[x[2]].skip
          \/ x[1] \notin hist.tried
          \/ x[1] \in hist.raised /\ (x[1] \notin hist.plain \/ x[1] \in hist.unread)

FirstSegment(s) == FirstPart(SubSeq(s, SkipSlashes(s, 0) + 1, Len(s)))

\* C14: after any sequence of extra_partition_register calls with arbitrary
\* strings, the first path segment (leading '/' characters ignored) of every
\* string stored in extra_parts is not a member of the blacklist.
C14_Blacklist ==
    \A i \in 1..Len(extra_parts) : FirstSegment(extra_parts[i]) \notin blacklist

\* the lower-case form of the letters the names are drawn from
ToLower(c) == CASE c = "D" -> "d" [] c = "V" -> "v" [] OTHER -> c

Lowered(s) == [i \in 1..Len(s) |-> ToLower(s[i])]

\* the first path segment of s behind one leading '/'
SegmentOf(s) == FirstPart(IF Len(s) > 0 /\ s[1] = "/" THEN Tail(s) ELSE s)

\* what the specification asks of a name that is registered
Acceptable(s) ==
    /\ str_trim(s) # <<>>
    /\ Lowered(SegmentOf(str_trim(s))) \notin blacklist

Rejected == { <<>>, <<" ", " ">>, <<"/", "b", "i", "n">>, NameChars("vendor") }

Accepted == { NameChars("mi_ext"), NameChars("my_stock") }

Added(s) ==
    /\ Len(extra_parts') = Len(extra_parts) + 1
    /\ SubSeq(extra_parts', 1, Len(extra_parts)) = extra_parts
    /\ str_trim(extra_parts'[Len(extra_parts')]) = str_trim(s)

\* C15: a call of extra_partition_register adds the name if and only if the
\* name is not empty after trimming and its first path segment (a leading '/'
\* ignored), compared after lowercasing, is not in the blacklist; "", "  ",
\* "/bin" and "vendor" are rejected, "mi_ext" and "my_stock" accepted; a
\* rejected call leaves extra_parts unchanged.
C15_RegisterIff ==
    [][pc = "register" =>
        /\ (IF Acceptable(Head(todo)) THEN Added(Head(todo))
                                      ELSE extra_parts' = extra_parts)
        /\ Head(todo) \in Rejected => extra_parts' = extra_parts
        /\ Head(todo) \in Accepted => Added(Head(todo))]_vars

(***************************************************************************)
(* Where the nodes of the tree come from.                                  *)
(***************************************************************************)
\* node n was made of an entry strictly inside the directory of enabled module j
InsideModule(n, j) ==
    /\ Enabled(j)
    /\ n.module_name = ModuleName(j)
    /\ Len(n.module_path) >= 2
    /\ n.module_path[1] = ModuleName(j)
    /\ n.module_path \in DOMAIN modfs

\* C16: in a built tree every node other than root that has a module_path has the
\* module_name of an enabled module, and its module_path lies strictly inside the
\* directory of that same module, the nodes made by the symlink replacement and
\* by the extra-partition scans included.
C16_ModulePaths ==
    TreeBuilt =>
        \A n \in Reach(nodes, {Root}) \ {Root} :
            nodes[n].module_path # NullPath =>
                \E j \in DOMAIN cfg.mods : InsideModule(nodes[n], j)

\* a tree was built whose nodes come from two enabled modules, that holds a
\* directory put in the place of a compatible link with an entry of a module
\* below it, and an entry below the node of an extra partition
C16_Witness ==
    /\ TreeBuilt
    /\ Len(cfg.mods) = 2 /\ Enabled(1) /\ Enabled(2)
    /\ \E a, b \in Reach(nodes, {Root}) :
         /\ nodes[a].module_path # NullPath /\ nodes[a].module_name = ModuleName(1)
         /\ nodes[b].module_path # NullPath /\ nodes[b].module_name = ModuleName(2)
    /\ \E p \in Children(nodes, System) : \E c \in Children(nodes, p) :
         /\ nodes[p].module_path = NullPath /\ nodes[p].module_name # NullName
         /\ nodes[c].module_path # NullPath /\ nodes[c].module_path[2] = nodes[p].name
    /\ \E p \in Children(nodes, Root) \ {System} : \E c \in Children(nodes, p) :
         /\ nodes[p].module_path = NullPath
         /\ nodes[c].module_path # NullPath /\ nodes[c].module_path[2] = nodes[p].name

(***************************************************************************)
(* The extra partitions of the last loop of build_mount_tree.              *)
(***************************************************************************)
\* an entry a scan makes content of: a supported entry that is no directory, or a
\* directory marked replace
ContentAt(p) ==
    /\ SupportedAt(modfs, p)
    /\ modfs[p].kind = "dir" => modfs[p].opaque

\* some enabled module holds content below its directory name
Content(name) ==
    \E j \in Providers(name) : \E p \in DOMAIN modfs :
        /\ Len(p) > 2 /\ SubSeq(p, 1, 2) = <<ModuleName(j), name>>
        /\ ContentAt(p)

\* the step appends a Directory node named name to the children of root
AttachedNow(name) ==
    \E c \in DOMAIN nodes' \ DOMAIN nodes :
        /\ nodes'[c].name = name
        /\ nodes'[c].type = NFT_DIRECTORY
        /\ nodes'[Root].children = Append(nodes[Root].children, c)

\* the step leaves the children of root as they are
DroppedNow == nodes'[Root].children = nodes[Root].children

\* the step of the loop for the partition name: attached or dropped as the
\* statement says
ExtraSettled(name) ==
    IF path_is_dir(Live0, <<name>>) /\ Content(name)
    THEN AttachedNow(name)
    ELSE DroppedNow

\* C17: for each registered extra partition name a Directory child named name is
\* attached to root if and only if /name is a live directory and the scan of
\* <module>/<name> over the enabled modules produced content; otherwise the
\* partition is dropped without error and the build continues.
C17_ExtraPartitions ==
    [][pc = "extras" /\ todo # <<>> =>
          /\ pc' = "extras" /\ rc' = rc
          /\ ExtraSettled(Head(todo))]_vars

(***************************************************************************)
(* The list of failed modules.                                             *)
(***************************************************************************)
\* the names passed to module_mark_failed so far
Passed == {cfg.calls[i] : i \in 1..(Len(cfg.calls) - Len(todo))}

Recorded(list) == {list[i] : i \in DOMAIN list}

\* C18: after any sequence of module_mark_failed calls the list holds each name
\* at most once and exactly the names passed so far, and a call with a name that
\* is recorded leaves the list unchanged.
C18_MarkedOnce ==
    /\ [](pc = "mark" =>
            /\ \A i, j \in DOMAIN failed_modules :
                  failed_modules[i] = failed_modules[j] => i = j
            /\ Recorded(failed_modules) = Passed)
    /\ [][pc = "mark" /\ Head(todo) \in Recorded(failed_modules) =>
            failed_modules' = failed_modules]_vars

\* four calls were made, the last with a name that was recorded, and two names
\* are in the list
C18_Witness ==
    /\ pc = "mark" /\ todo = <<>> /\ Len(cfg.calls) = MaxMarks
    /\ cfg.calls[MaxMarks] \in {cfg.calls[i] : i \in 1..(MaxMarks - 1)}
    /\ Len(failed_modules) = 2

(***************************************************************************)
(* The names of the nodes.                                                 *)
(***************************************************************************)
\* name is one path segment: it holds no '/' and is neither "." nor ".."
SingleSegment(name) == Segments(name) = <<name>> /\ name \notin {"", ".", ".."}

\* C19: in every tree build_mount_tree returns, whatever the modules and the
\* registered extra partitions, the name of every node other than root is a single
\* path segment: it holds no '/' and is neither "." nor "..".
C19_SingleSegment ==
    TreeBuilt => \A n \in Reach(nodes, {Root}) \ {Root} : SingleSegment(nodes[n].name)

(***************************************************************************)
(* path_join.                                                              *)
(***************************************************************************)
\* base and name with one '/' between them: none is added behind a base that
\* ends in one, and an empty name leaves base as it is
Joined(base, name) ==
    IF name = <<>> THEN base
    ELSE IF base # <<>> /\ base[Len(base)] = "/" THEN base \o name
    ELSE base \o <<"/">> \o name

\* C20: path_join puts exactly one '/' between base and name: join(base, "") is
\* base, join("/", "x") is "/x", join("/a/", "b") and join("/a", "b") are "/a/b";
\* it fails with NameTooLong exactly when the path would be longer than
\* PATH_MAX - 1 characters.
C20_Join ==
    pc = "joined" =>
        /\ rc.ok <=> Len(Joined(cfg.base, cfg.name)) <= PATH_MAX - 1
        /\ rc.ok => rc.s = Joined(cfg.base, cfg.name)

(***************************************************************************)
(* The calls of the applier, in the order ops holds them.                  *)
(***************************************************************************)
\* the bind mounts of the Regular nodes
RegularBinds == {i \in Calls("bind") : nodes[ops[i].node].type = NFT_REGULAR}

\* the call behind call i reports the path of call i as unmountable
ReportedNext(i) ==
    /\ i + 1 \in DOMAIN ops
    /\ ops[i + 1].op = "unmountable"
    /\ ops[i + 1].node = ops[i].node
    /\ ops[i + 1].dst = ops[i].dst

\* C21: for a Regular node the path is reported as unmountable if and only if
\* the bind mount was made on the live path (has_tmpfs false) and
\* enable_unmountable is set, whatever the configured temp directory is; the report
\* comes behind the successful bind mount and before the read-only remount, and
\* nodes_mounted is incremented once for each successful bind.
C21_RegularUnmountable ==
    /\ \A i \in RegularBinds :
          ReportedNext(i) <=> (~ops[i].tmp /\ cfg.enable_unmountable)
    /\ \A i \in Calls("unmountable") :
          nodes[ops[i].node].type = NFT_REGULAR => i - 1 \in RegularBinds
    /\ \A i, j \in RegularBinds : ops[i].node = ops[j].node => i = j
    /\ \A i \in RegularBinds :
          \E j \in {i + 1, i + 2} \cap Calls("remount_ro") :
              /\ ops[j].node = ops[i].node
              /\ j = i + 2 => ReportedNext(i)

\* call k is the call op of node d
CallOf(k, op, d) == k \in DOMAIN ops /\ ops[k].op = op /\ ops[k].node = d

\* call k works inside the tmpfs layer strictly below the path p
InsideTmpfs(k, p) ==
    /\ ops[k].tmp
    /\ ops[k].op \in {"bind", "symlink", "mirror_bind", "remount_ro"}
    /\ Len(ops[k].dst) > Len(p) /\ IsUnder(ops[k].dst, p)

\* the directories that made their own tmpfs and whose application has ended
\* without an error
TmpfsEnded ==
    {d \in DOMAIN nodes :
        /\ \E j \in Calls("bind_self") : ops[j].node = d
        /\ d \notin hist.raised
        /\ \A i \in DOMAIN stack : stack[i].node # d}

\* C22: for a Directory that makes its own tmpfs the calls come in this order: the
\* self-bind of W, the application and mirroring of the children, the read-only
\* remount of W, the move of W onto P, the recursive PRIVATE on P and, if
\* enable_unmountable is set, the report of P; W is moved exactly once, and P is
\* never reported before the move succeeded.
C22_TmpfsOrder ==
    /\ \A m \in Calls("move") :
          /\ \E j \in Calls("bind_self") :
                /\ ops[j].node = ops[m].node /\ j < m
                /\ \A k \in DOMAIN ops :
                      InsideTmpfs(k, ops[m].dst) => j < k /\ k < m - 1
          /\ CallOf(m - 1, "remount_ro", ops[m].node) /\ ops[m - 1].tmp
          /\ CallOf(m + 1, "private", ops[m].node)
          /\ cfg.enable_unmountable <=> CallOf(m + 2, "unmountable", ops[m].node)
          /\ \A c \in Children(nodes, ops[m].node) : nodes[c].skip \/ c \in hist.tried
    /\ \A m, k \in Calls("move") : ops[m].node = ops[k].node => m = k
    /\ \A d \in TmpfsEnded : \E m \in Calls("move") : ops[m].node = d
    /\ \A u \in Calls("unmountable") :
          nodes[ops[u].node].type = NFT_DIRECTORY => CallOf(u - 2, "move", ops[u].node)

\* a tmpfs was moved into place and reported that holds a bound file, a created
\* link and a mirrored live entry
C22_Witness ==
    /\ pc = "done" /\ cfg.enable_unmountable
    /\ \E m \in Calls("move") :
         /\ CallOf(m + 2, "unmountable", ops[m].node)
         /\ \E b \in Calls("bind"), l \in Calls("symlink"), r \in Calls("mirror_bind") :
              InsideTmpfs(b, ops[m].dst) /\ InsideTmpfs(l, ops[m].dst)
                  /\ InsideTmpfs(r, ops[m].dst)

(***************************************************************************)
(* mm_check_need_tmpfs.                                                    *)
(***************************************************************************)
\* what the statement asks of the child c of a directory applied at path: a
\* Symlink, a Whiteout whose live counterpart exists, or a Regular or Directory
\* child whose live entry is absent, of another type, or a symbolic link
Demands(live, c, path) ==
    LET rp == path_join(path, nodes[c].name) IN
    \/ nodes[c].type = NFT_SYMLINK
    \/ nodes[c].type = NFT_WHITEOUT /\ path_exists(live, rp)
    \/ /\ nodes[c].type \in {NFT_REGULAR, NFT_DIRECTORY}
       /\ \/ ~lstat_ok(live, rp)
          \/ node_type_from_stat(lstat(live, rp)) # nodes[c].type
          \/ lstat(live, rp).kind = "lnk"

\* the frames of directories that have a module_path, are not replace and were
\* entered outside any tmpfs: mm_check_need_tmpfs decided create_tmp
Checked ==
    {i \in DOMAIN stack :
        /\ nodes[stack[i].node].module_path # NullPath
        /\ ~nodes[stack[i].node].replace
        /\ \A j \in 1..(i - 1) : ~stack[j].now_tmp}

\* the children of the top frame were not applied yet, the live directory is as
\* the frame found it
Fresh(i) ==
    /\ i = Len(stack) /\ stack[i].phase = "children"
    /\ \A c \in Children(nodes, stack[i].node) : c \notin hist.tried

\* C23: for a Directory node that has a module_path, is not inside a tmpfs and is
\* not replace, mm_check_need_tmpfs returns true if and only if some child is a
\* Symlink, a Whiteout whose live counterpart exists, or a Regular or Directory
\* child whose live entry is absent, of another type or a symbolic link; otherwise
\* the directory is applied with plain bind mounts.
C23_NeedTmpfs ==
    pc = "apply" =>
        \A i \in Checked :
            Fresh(i) =>
                (stack[i].create_tmp <=>
                    \E c \in Children(nodes, stack[i].node) :
                        Demands(livefs, c, stack[i].path))

(***************************************************************************)
(* Children that cannot be applied: skip.                                  *)
(***************************************************************************)
\* the child c of a directory applied at path asks for a tmpfs: a Symlink, a
\* Whiteout whose live counterpart exists, or a Regular or Directory child whose
\* live entry was probed and is of another type or a symbolic link
Requires(live, c, path) ==
    LET rp == path_join(path, nodes[c].name) IN
    \/ nodes[c].type = NFT_SYMLINK
    \/ nodes[c].type = NFT_WHITEOUT /\ path_exists(live, rp)
    \/ /\ nodes[c].type \in {NFT_REGULAR, NFT_DIRECTORY}
       /\ lstat_ok(live, rp)
       /\ \/ node_type_from_stat(lstat(live, rp)) # nodes[c].type
          \/ lstat(live, rp).kind = "lnk"

\* the frames of the directories that have no module_path
Sourceless == {i \in DOMAIN stack : nodes[stack[i].node].module_path = NullPath}

\* the node c was touched by the applier: applied, named by a call, or on the stack
Touched(c) ==
    \/ c \in hist.tried
    \/ \E k \in DOMAIN ops : ops[k].node = c
    \/ \E i \in DOMAIN stack : stack[i].node = c \/ stack[i].cur = c

SkippedSeen ==
    IF nodes = <<>> THEN {}
    ELSE {x \in TreePaths : nodes[x[1]].skip /\ nodes[x[1]].done}

\* C25: in the existing-children pass a live entry whose same-named tree child is
\* marked skip is dropped from the resulting directory (whiteout effect): after the
\* apply the original entry is no longer visible at P/child.name.
C25_SkippedDropped ==
    pc = "done" => \A x \in SkippedSeen : ~lstat_ok(livefs, x[2])

\* C25 as the code has it: the live entry whose same-named tree child is marked
\* skip is left alone.  No call names the child, no tmpfs is moved onto its
\* directory or above it, and the entry the run found at P/child.name is the
\* entry visible there afterwards.
C25_SkippedKept ==
    \A x \in SkippedSeen :
        /\ lstat_ok(livefs, x[2])
        /\ lstat_ok(Live0, x[2])
        /\ lstat(livefs, x[2]) = lstat(Live0, x[2])
        /\ \A k \in DOMAIN ops : ops[k].node # x[1]
        /\ \A k \in Calls("move") : ~IsUnder(x[2], ops[k].dst)

\* a run ended in which the loop over a live directory met a Regular child with
\* skip while a tmpfs was moved into place elsewhere
C25_Witness ==
    /\ pc = "done"
    /\ \E x \in SkippedSeen : nodes[x[1]].type = NFT_REGULAR
    /\ Calls("move") # {}

(***************************************************************************)
(* Symlink nodes.                                                          *)
(***************************************************************************)
\* call k was made inside the tmpfs of a directory that made its own and had not
\* moved it yet
InWorkdir(k) ==
    \E j \in Calls("bind_self") :
        /\ j < k
        /\ Len(ops[k].dst) > Len(ops[j].dst) /\ IsUnder(ops[k].dst, ops[j].dst)
        /\ \A m \in Calls("move") : ops[m].node = ops[j].node => k < m

\* C26: a Symlink node is only ever applied with has_tmpfs true: a module symlink
\* is created only at a path inside the workdir tmpfs layer and never directly at
\* a live path; a Symlink child either forces its parent into tmpfs mode or is
\* skipped.
C26_SymlinkInTmpfs ==
    /\ (Applies /\ nodes[Cand].type = NFT_SYMLINK) => Top.now_tmp
    /\ \A k \in Calls("symlink") :
          /\ InWorkdir(k)
          /\ nodes[ops[k].node].type = NFT_SYMLINK
          /\ \E p \in DOMAIN work : work[p].org = "clone"
    /\ \A i \in DOMAIN stack :
          \A c \in Children(nodes, stack[i].node) :
              nodes[c].type = NFT_SYMLINK => stack[i].now_tmp \/ nodes[c].skip
    /\ \A p \in DOMAIN livefs :
          livefs[p].org = "clone" =>
              \E m \in Calls("move") : IsUnder(p, LPath(livefs, ops[m].dst))

\* a module symlink was created in the tmpfs of its parent, and another Symlink
\* child, of a directory without module_path, was skipped
C26_Witness ==
    /\ Calls("symlink") # {}
    /\ \E c \in DOMAIN nodes : nodes[c].type = NFT_SYMLINK /\ nodes[c].skip

(***************************************************************************)
(* The two loops over the children of a directory.                         *)
(***************************************************************************)
\* the live directory at path has an entry with the name of the node c
LiveNamed(c, path) == lstat_ok(livefs, path_join(path, nodes[c].name))

\* the directories whose application has ended without an error
Completed ==
    {d \in hist.tried \ hist.raised :
        /\ nodes[d].type = NFT_DIRECTORY
        /\ \A i \in DOMAIN stack : stack[i].node # d}

\* every child without skip of a completed directory was applied
AllApplied ==
    \A d \in Completed : \A c \in Children(nodes, d) : nodes[c].skip \/ c \in hist.tried

\* the step is the one by which the loop of the top frame applies Cand
ApplyStep ==
    /\ Applies
    /\ Len(stack') >= Len(stack)
    /\ stack'[Len(stack)].todo = Tail(Top.todo)

\* the step that applies Cand applies a child that was not applied before
AppliedOnce == Cand \notin hist.tried /\ Cand \in hist'.tried

\* the children named in the live directory come first, in the live-entry pass
LiveFirst ==
    /\ LiveNamed(Cand, Top.path) => Top.phase = "children"
    /\ Top.phase = "remaining" =>
          \A d \in Children(nodes, Top.node) :
              LiveNamed(d, Top.path) /\ ~nodes[d].skip => d \in hist.tried

\* mm_process_dir_children reads the live directory of the top frame
ListedNow == listing(nodes[Top.node], Top.path) = "dir"

\* C27: for every Directory node whose application completes without a fatal
\* error, every child with skip false is applied exactly once; children whose
\* name exists in the live directory are applied in the live-entry pass, and all
\* of them before any module-only child is applied.
C27_TwoPasses ==
    /\ []AllApplied
    /\ [][ApplyStep => AppliedOnce /\ LiveFirst]_vars

\* the node c is the child node_child_find returns for its name
FirstNamed(c) == node_child_find(nodes, Top.node, nodes[c].name) = c

\* LiveFirst for the children the loop over the live directory can find
LiveFirstFound ==
    /\ LiveNamed(Cand, Top.path) /\ FirstNamed(Cand) => Top.phase = "children"
    /\ ~FirstNamed(Cand) => Top.phase = "remaining"
    /\ Top.phase = "remaining" =>
          \A d \in Children(nodes, Top.node) :
              LiveNamed(d, Top.path) /\ FirstNamed(d) /\ ~nodes[d].skip
                  => d \in hist.tried

\* C27 as the code has it: the live-entry pass only runs for a directory that is
\* not replace and whose live path is a directory.  There the children that
\* node_child_find returns for a name of the live directory are applied in the
\* live-entry pass and before any other child; a second child of the same name,
\* and in a replace directory or one without a live directory to read every
\* child, is applied in the module-only pass.
C27_TwoPassesListed ==
    /\ []AllApplied
    /\ [][ApplyStep =>
            /\ AppliedOnce
            /\ ListedNow => LiveFirstFound
            /\ ~ListedNow => Top.phase = "remaining"]_vars

\* a directory was read, a child named in it and then a module-only child were
\* applied, and the directory completed
C27_Witness ==
    \E d \in Completed :
        /\ ~nodes[d].replace
        /\ \E c, e \in Children(nodes, d) :
              /\ c \in hist.tried /\ e \in hist.tried
              /\ nodes[c].done /\ ~nodes[e].done

(***************************************************************************)
(* Whiteout nodes.                                                         *)
(***************************************************************************)
\* the Whiteout children of the directories whose tmpfs was moved into place,
\* with the live path each one hides
Whited ==
    UNION {{<<c, path_join(ops[m].dst, nodes[c].name)>> :
                c \in {x \in Children(nodes, ops[m].node) :
                            nodes[x].type = NFT_WHITEOUT}} :
           m \in Calls("move")}

\* the step that applies a Whiteout makes no call, changes no file and counts once
WhiteoutStep ==
    /\ ops' = ops /\ work' = work /\ livefs' = livefs
    /\ stats' = [stats EXCEPT !.nodes_whiteout = @ + 1]
    /\ ret' = "run"

\* C28: applying a Whiteout node performs no mount or file operation and
\* increments nodes_whiteout by exactly one; when its parent Directory is in tmpfs
\* mode the live entry with the whiteout's name is not mirrored into the tmpfs, so
\* it is absent after the tmpfs is moved into place.
C28_Whiteout ==
    /\ [][ApplyStep /\ nodes[Cand].type = NFT_WHITEOUT => WhiteoutStep]_vars
    /\ [](\A k \in DOMAIN ops :
            ops[k].node \in DOMAIN nodes => nodes[ops[k].node].type # NFT_WHITEOUT)
    /\ [](\A i \in DOMAIN stack :
            stack[i].now_tmp =>
                \A c \in Children(nodes, stack[i].node) :
                    nodes[c].type = NFT_WHITEOUT =>
                        ~lstat_ok(work, path_join(stack[i].path, nodes[c].name)))
    /\ [](\A x \in Whited : ~lstat_ok(livefs, x[2]))

\* a tmpfs was moved into place and an entry the run found in the live directory
\* is gone because a Whiteout child has its name
C28_Witness ==
    /\ stats.nodes_whiteout > 0
    /\ \E x \in Whited : lstat_ok(Live0, x[2]) /\ ~lstat_ok(livefs, x[2])

(***************************************************************************)
(* The end of magic_mount.                                                 *)
(***************************************************************************)
\* the calls made on a live path so far
LiveCalls == {k \in DOMAIN ops : ~ops[k].tmp}

\* the workdir was unmounted and removed once, by the last two calls of the run
TornDown ==
    /\ Cardinality(Calls("umount")) = 1 /\ Cardinality(Calls("rmdir")) = 1
    /\ ops[Len(ops) - 1].op = "umount" /\ ops[Len(ops)].op = "rmdir"
    /\ \A k \in Calls("umount") \cup Calls("rmdir") : ops[k].tmp /\ ops[k].dst = <<>>

\* the step of the unmount leaves the live tree and every earlier call as they were
TeardownStep ==
    /\ livefs' = livefs
    /\ SubSeq(ops', 1, Len(ops)) = ops
    /\ {k \in DOMAIN ops' : ~ops'[k].tmp} = LiveCalls

\* C29: whenever the workdir tmpfs has been mounted, on every path by which
\* magic_mount returns (the application of the root succeeded or failed) the
\* workdir is detach-unmounted and removed exactly once, after all apply
\* operations; the unmount never touches a mount installed on a live path, so
\* the mounts installed before a failure stay in place.
C29_Teardown ==
    /\ [](Calls("umount") \cup Calls("rmdir") # {} => pc = "done" /\ Calls("tmpfs") # {})
    /\ [](pc = "done" /\ Calls("tmpfs") # {} => TornDown /\ rc \in {"0", "-1"})
    /\ [][pc = "teardown" => TeardownStep]_vars

\* magic_mount returned -1 because the application of the root failed, after a
\* bind mount was installed on a live path; the workdir was unmounted and removed
C29_Witness ==
    /\ pc = "done" /\ rc = "-1"
    /\ TornDown
    /\ \E k \in Calls("bind") : ~ops[k].tmp /\ lstat(livefs, ops[k].dst).org = "module"

(***************************************************************************)
(* The module a failure is put down to.                                    *)
(***************************************************************************)
\* the module_name of the nearest directory on the stack, from frame i down to
\* the root, that has one
RECURSIVE NearestAbove(_)
NearestAbove(i) ==
    IF i = 0 THEN NullName
    ELSE IF nodes[stack[i].node].module_name # NullName
    THEN nodes[stack[i].node].module_name
    ELSE NearestAbove(i - 1)

\* the module_name of the nearest node, from the child c of the top frame up
\* through its ancestors, that has one
Nearest(c) ==
    IF nodes[c].module_name # NullName THEN nodes[c].module_name
    ELSE NearestAbove(Len(stack))

\* the names in the list of failed modules
FailedNames(list) == {list[i] : i \in DOMAIN list}

\* the error of the child cur of the top frame reaches the catch of its loop
Caught == pc = "apply" /\ ret = "err" /\ stack # <<>>

\* C30: whenever the application of a child raises an error, the module recorded
\* by module_mark_failed is the module_name of the nearest node, from the failing
\* child up through its ancestors, that has one; the failure is left without a
\* module only if no node on that path has one.
C30_NearestModule ==
    [][Caught =>
          FailedNames(failed_modules')
              = FailedNames(failed_modules)
                \cup (IF Nearest(Top.cur) # NullName THEN {Nearest(Top.cur)} ELSE {})]_vars

\* a run ended in which a failure was put down to the module of the failing
\* child, under a directory that has no module_name, and another failure, of a
\* node without module_name under the root, was left without a module
C30_Witness ==
    /\ pc = "done"
    /\ failed_modules # <<>>
    /\ \E x \in TreeEdges :
          /\ x[2] \in hist.raised
          /\ nodes[x[2]].module_name \in FailedNames(failed_modules)
          /\ nodes[x[1]].module_name = NullName

(***************************************************************************)
(* Directories that cannot be opened during the build.                     *)
(***************************************************************************)
\* a step of one of the two scanning loops of build_mount_tree
ScanStep == pc \in {"scan", "extras"} /\ todo # <<>>

\* C31: when a subdirectory inside an otherwise enabled module cannot be opened
\* during the scan (a path an earlier module made a Directory node that is not a
\* directory in the later module among them), only that subtree is skipped and the
\* build goes on with the remaining entries and modules: no step of a scanning
\* loop ends the build, and each one moves on to the next entry.
C31_SubtreeSkipped ==
    [][ScanStep => pc' = pc /\ todo' = Tail(todo) /\ rc' = rc]_vars

(***************************************************************************)
(* The links of system to partitions, resolved against the modules.        *)
(***************************************************************************)
\* the step of build_mount_tree that resolves the links of system
ResolveStep == pc = "scan" /\ todo = <<>> /\ has_any

\* the partitions the step resolves, in the order it takes them
ResolvedParts == BuiltinParts \o extra_parts

\* the children of system named part in heap, by their place among the children
NamedUnder(heap, part) ==
    {i \in DOMAIN heap[System].children : heap[heap[System].children[i]].name = part}

\* before the step the child of system named part is a Symlink node of a module
LinkChild(old) ==
    /\ old # 0
    /\ nodes[old].type = NFT_SYMLINK
    /\ nodes[old].module_path # NullPath

\* the target of the link the node old was made of is compatible with part
CompatibleLink(old, part) ==
    is_compatible_symlink(lstat(modfs, nodes[old].module_path).target,
                          NameChars(part), TRUE, S_module_dir,
                          nodes[old].module_name # NullName,
                          NameChars(nodes[old].module_name))

\* the first place of the module root, in enumeration order, whose module is
\* enabled and holds a directory part; 0 when there is none
FirstHolder(part) ==
    IF Providers(part) = {} THEN 0
    ELSE CHOOSE j \in Providers(part) : \A k \in Providers(part) : j <= k

\* a scan of <module j>/part produces content
ContentIn(j, part) ==
    \E p \in DOMAIN modfs :
        /\ Len(p) > 2 /\ SubSeq(p, 1, 2) = <<ModuleName(j), part>>
        /\ ContentAt(p)

\* the conditions under which the link child of system named part is replaced
MustReplace(old, part, j) ==
    /\ LinkChild(old)
    /\ CompatibleLink(old, part)
    /\ j # 0
    /\ ContentIn(j, part)

\* the step left one child named part under system: a new Directory of module j
\* whose descendants were all made of entries below <module j>/part
ReplacedBy(part, j, c) ==
    /\ Cardinality(NamedUnder(nodes', part)) = 1
    /\ c \notin DOMAIN nodes
    /\ nodes'[c].type = NFT_DIRECTORY
    /\ nodes'[c].module_name = ModuleName(j)
    /\ Reach(nodes', {c}) # {c}
    /\ \A d \in Reach(nodes', {c}) \ {c} :
          /\ Len(nodes'[d].module_path) > 2
          /\ SubSeq(nodes'[d].module_path, 1, 2) = <<ModuleName(j), part>>

\* the step left the child of system named part as it was
KeptAsWas(old, part) ==
    /\ node_child_find(nodes', System, part) = old
    /\ Cardinality(NamedUnder(nodes', part)) = Cardinality(NamedUnder(nodes, part))
    /\ old # 0 => nodes'[old] = nodes[old]

ResolvedRight(old, part, j) ==
    IF MustReplace(old, part, j)
    THEN ReplacedBy(part, j, node_child_find(nodes', System, part))
    ELSE KeptAsWas(old, part)

\* the Directory that took the place of the link of a builtin partition was made
\* before the one of an extra partition
BuiltinFirst ==
    \A i \in DOMAIN BuiltinParts, k \in DOMAIN extra_parts :
        LET b == node_child_find(nodes', System, BuiltinParts[i])
            e == node_child_find(nodes', System, extra_parts[k])
        IN (b \notin DOMAIN nodes /\ e \notin DOMAIN nodes /\ b # 0 /\ e # 0) => b < e

\* C32: in the resolution step, for every builtin and registered extra partition
\* P, the Symlink child P of system is replaced if and only if its link target is
\* compatible, some enabled module holds a directory <module>/P, and the scan of
\* the first such module M' in enumeration order produces content; then exactly
\* one child named P is left under system, a Directory with moduleName M' whose
\* descendants all come from <M'>/P; in every other case the child is kept
\* unchanged.  The step runs before promotion (root has no child yet, promotion
\* comes next), and the builtin partitions are resolved before the extra ones.
C32_Resolution ==
    [][ResolveStep =>
          /\ \A i \in DOMAIN ResolvedParts :
                ResolvedRight(node_child_find(nodes, System, ResolvedParts[i]),
                              ResolvedParts[i], FirstHolder(ResolvedParts[i]))
          /\ nodes[Root].children = <<>> /\ nodes'[Root].children = <<>>
          /\ pc' = "promote"
          /\ BuiltinFirst]_vars

\* the links system/vendor and system/my_stock were both replaced by directories,
\* the link nodes being left outside the tree
C32_Witness ==
    /\ pc = "promote"
    /\ \A part \in {"vendor", "my_stock"} :
          /\ \E n \in DOMAIN nodes \ Children(nodes, System) :
                nodes[n].name = part /\ nodes[n].type = NFT_SYMLINK
          /\ \E c \in Children(nodes, System) :
                nodes[c].name = part /\ nodes[c].type = NFT_DIRECTORY
    /\ \E part \in {"vendor"} :
          \E n \in Children(nodes, System) :
              nodes[n].name = part /\ nodes[n].type = NFT_DIRECTORY

(***************************************************************************)
(* What a scan counts as content.                                          *)
(***************************************************************************)
\* the step of the first loop of build_mount_tree that scans the system directory
\* of a module to its end
ScannedNow == pc = "scan" /\ todo # <<>> /\ module_scanned(modfs, Head(todo)) /\ pc' = "scan"

\* the child node in heap of the entry at place i of the directory dir, scanned
\* into the node self; 0 when the entry has none
ChildOf(heap, self, dir, i) == node_child_find(heap, self, readdir(modfs, dir)[i])

\* the scan of dir into the node self reports content: one of its children is no
\* Directory, or is marked replace, or is a Directory whose own scan reports content
RECURSIVE Reports(_, _, _)
Reports(heap, self, dir) ==
    \E i \in DOMAIN readdir(modfs, dir) :
        /\ ChildOf(heap, self, dir, i) # 0
        /\ \/ heap[ChildOf(heap, self, dir, i)].type # NFT_DIRECTORY
           \/ heap[ChildOf(heap, self, dir, i)].replace
           \/ Reports(heap, ChildOf(heap, self, dir, i),
                      path_join(dir, readdir(modfs, dir)[i]))

\* the step made a node below the node c
Produced(c) == \E d \in Reach(nodes', {c}) \ {c} : d \notin DOMAIN nodes

\* the scan of dir into the node self has a child that is no Directory, or is
\* marked replace, or is a Directory below which the step made a node
ReportsMade(self, dir) ==
    \E i \in DOMAIN readdir(modfs, dir) :
        /\ ChildOf(nodes', self, dir, i) # 0
        /\ \/ nodes'[ChildOf(nodes', self, dir, i)].type # NFT_DIRECTORY
           \/ nodes'[ChildOf(nodes', self, dir, i)].replace
           \/ Produced(ChildOf(nodes', self, dir, i))

\* the system directory of the module the step scans
SystemOf(name) == path_join(path_join(<<>>, name), "system")

\* C33 as stated: a scan reports content exactly when one of its children is no
\* Directory, or is a Directory marked replace, or is a Directory whose recursion
\* produced a descendant.
C33_ContentMade ==
    [][ScannedNow => has_any' = (has_any \/ ReportsMade(System, SystemOf(Head(todo))))]_vars

\* C33, amended: a scan reports content exactly when one of its children has
\* content; every child that is no Directory has content, and a Directory child
\* has content exactly when it is marked replace or its own scan reported content
\* (a Directory below which the scan made nothing but directories without
\* content has none).
C33_ContentReported ==
    [][ScannedNow => has_any' = (has_any \/ Reports(nodes', System, SystemOf(Head(todo))))]_vars

\* the scans ended without content although they made a node below a child of system
C33_Witness ==
    /\ pc = "scan" /\ todo = <<>> /\ ~has_any
    /\ \E c \in Children(nodes, System) : Children(nodes, c) # {}

(***************************************************************************)
(* When build_mount_tree returns a tree.                                   *)
(***************************************************************************)
\* build_mount_tree has returned
BuildOver == pc \notin {"parse", "scan", "promote", "extras"}

\* the enabled module at place j holds an effective entry: content below its
\* system directory, or below a registered extra partition that is a live directory
Effective(j) ==
    /\ Enabled(j)
    /\ \/ ContentIn(j, "system")
       \/ \E k \in DOMAIN extra_parts :
             /\ path_is_dir(Live0, path_join(<<>>, extra_parts[k]))
             /\ ContentIn(j, extra_parts[k])

\* C34: build_mount_tree returns the no-content result if and only if every
\* enabled module contributed zero effective entries; when some enabled module
\* holds an effective entry, under its system directory or under a registered
\* extra partition that is a live directory, a tree is returned.
C34_TreeIffContent ==
    BuildOver => (TreeBuilt <=> \E j \in DOMAIN cfg.mods : Effective(j))

(***************************************************************************)
(* ksu.zig: ksu_send_unmountable called by several threads at once.  work  *)
(* holds the two globals, stack the activation of each thread, ops the     *)
(* requests made to the kernel, cfg what the kernel answers.               *)
(***************************************************************************)
\* how many threads call ksu_send_unmountable
KsuThreads == 3

\* what the kernel answers to the request for the driver descriptor: the return
\* value of the syscall and the descriptor it wrote
KernelAnswers ==
    {[result |-> 0, fd |-> 3], [result |-> 0, fd |-> -2], [result |-> -22, fd |-> -1]}

\* a thread outside ksu_send_unmountable
Idle == [at |-> "idle", grabbed |-> -1, fd |-> -1, ret |-> "none"]

InitKsu ==
    /\ cfg \in {[threads |-> n, kernel |-> k] : n \in 2..KsuThreads, k \in KernelAnswers}
    /\ modfs = MkFS({})
    /\ livefs = MkFS({})
    /\ work = [g_driver_fd |-> -1, g_driver_fd_initialized |-> FALSE]
    /\ pc = "ksu"
    /\ todo = <<>>
    /\ nodes = <<>>
    /\ has_any = FALSE
    /\ stats = ZeroStats
    /\ failed_modules = <<>>
    /\ extra_parts = <<>>
    /\ sys_before = <<>>
    /\ stack = [t \in 1..cfg.threads |-> Idle]
    /\ ret = "run"
    /\ ops = <<>>
    /\ hist = NoHist
    /\ failsLeft = 0
    /\ rc = "none"

KsuRest == <<cfg, modfs, livefs, pc, todo, nodes, has_any, stats, failed_modules,
             extra_parts, sys_before, ret, hist, failsLeft, rc>>

\* ksu_send_unmountable calls ksuGrabFd: the exchange of g_driver_fd_initialized
ksuGrabFd ==
    \E t \in DOMAIN stack :
    /\ pc = "ksu" /\ stack[t].at = "idle"
    /\ work' = [work EXCEPT !.g_driver_fd_initialized = TRUE]
    /\ stack' = [stack EXCEPT ![t].at = IF work.g_driver_fd_initialized
                                        THEN "load" ELSE "syscall"]
    /\ UNCHANGED <<KsuRest, ops>>

\* ksuGrabFdOnce: the syscall; what will be stored is result when it is not 0,
\* the descriptor otherwise
ksuGrabFdOnce ==
    \E t \in DOMAIN stack :
    /\ pc = "ksu" /\ stack[t].at = "syscall"
    /\ ops' = Append(ops, Op("reboot", <<>>, <<>>, t, FALSE))
    /\ stack' = [stack EXCEPT ![t].at = "store",
                              ![t].grabbed = IF cfg.kernel.result # 0
                                             THEN cfg.kernel.result ELSE cfg.kernel.fd]
    /\ UNCHANGED <<KsuRest, work>>

\* ksuGrabFdOnce: g_driver_fd.store
ksuGrabFdStore ==
    \E t \in DOMAIN stack :
    /\ pc = "ksu" /\ stack[t].at = "store"
    /\ work' = [work EXCEPT !.g_driver_fd = stack[t].grabbed]
    /\ stack' = [stack EXCEPT ![t].at = "load"]
    /\ UNCHANGED <<KsuRest, ops>>

\* ksuGrabFd returns g_driver_fd.load, and ksu_send_unmountable returns -1 on a
\* descriptor below 0
ksuGrabFdLoad ==
    \E t \in DOMAIN stack :
    /\ pc = "ksu" /\ stack[t].at = "load"
    /\ stack' = [stack EXCEPT ![t].fd = work.g_driver_fd,
                              ![t].at = IF work.g_driver_fd < 0 THEN "returned" ELSE "ioctl",
                              ![t].ret = IF work.g_driver_fd < 0 THEN -1 ELSE "none"]
    /\ UNCHANGED <<KsuRest, work, ops>>

\* ksu_send_unmountable: the ioctl, which the kernel may refuse
ksu_send_unmountable ==
    \E t \in DOMAIN stack :
    /\ pc = "ksu" /\ stack[t].at = "ioctl"
    /\ ops' = Append(ops, Op("ioctl", <<>>, <<>>, t, FALSE))
    /\ \E r \in {0, -1} :
          stack' = [stack EXCEPT ![t].at = "returned", ![t].ret = r]
    /\ UNCHANGED <<KsuRest, work>>

NextKsu ==
    \/ ksuGrabFd \/ ksuGrabFdOnce \/ ksuGrabFdStore
    \/ ksuGrabFdLoad \/ ksu_send_unmountable

SpecKsu == InitKsu /\ [][NextKsu]_vars

\* the descriptor is requested from the kernel at most once
RequestedOnce == Cardinality(Calls("reboot")) <= 1

\* what the one request stores
StoredFd == IF cfg.kernel.result # 0 THEN cfg.kernel.result ELSE cfg.kernel.fd

\* every call that has read the descriptor has read what the request stored
ObservesStored ==
    \A t \in DOMAIN stack : stack[t].at \in {"ioctl", "returned"} => stack[t].fd = StoredFd

\* a call that read a descriptor below 0 returned -1 and issued no ioctl, and no
\* call returns anything but 0 or -1
InvalidRefused ==
    \A t \in DOMAIN stack :
        stack[t].at = "returned" =>
            /\ stack[t].ret \in {0, -1}
            /\ stack[t].fd < 0 =>
                  stack[t].ret = -1 /\ \A i \in Calls("ioctl") : ops[i].node # t

\* C35: under any interleaving of concurrent ksu_send_unmountable calls the
\* descriptor is requested from the kernel at most once, every call observes the
\* descriptor that request stored, never the initial -1 while the request is in
\* flight, a call that holds an invalid descriptor returns -1 without issuing the
\* ioctl, and a call returns 0 or -1 and nothing else.
C35_GrabOnce ==
    pc = "ksu" => RequestedOnce /\ ObservesStored /\ InvalidRefused

(***************************************************************************)
(* One tmpfs for a whole subtree.                                          *)
(***************************************************************************)
\* below a directory in tmpfs mode every directory is applied with has_tmpfs true
\* and with create_tmp false, and a directory that made the tmpfs is in tmpfs mode
TmpfsInherited ==
    /\ \A i \in DOMAIN stack : stack[i].create_tmp => stack[i].now_tmp
    /\ \A i \in 1..(Len(stack) - 1) :
          stack[i].now_tmp => stack[i + 1].now_tmp /\ ~stack[i + 1].create_tmp

\* the calls the step adds
NewCalls == (Len(ops) + 1)..Len(ops')

\* a step of the loops of a directory in tmpfs mode: what it binds, mirrors or
\* links lies in the workdir below the directory, it binds no directory on itself,
\* and the only move is that of the directory that made the tmpfs, at its end
InTmpfsStep ==
    \A k \in NewCalls :
        /\ ops'[k].op \in {"bind", "mirror_bind", "symlink"} =>
              ops'[k].tmp /\ IsUnder(ops'[k].dst, Top.path)
        /\ ops'[k].op # "bind_self"
        /\ ops'[k].op = "move" =>
              Top.create_tmp /\ ops'[k].node = Top.node /\ Top.todo = <<>>

\* every move is that of a directory that bound its tmpfs on itself before, no
\* directory below it is moved, and a directory whose tmpfs ended without an
\* error was moved exactly once
OneMovePerSubtree ==
    /\ \A m \in Calls("move") :
          /\ \E j \in Calls("bind_self") : j < m /\ ops[j].node = ops[m].node
          /\ \A k \in Calls("move") \ {m} :
                ops[k].node \notin Reach(nodes, {ops[m].node})
    /\ \A d \in TmpfsEnded : Cardinality({m \in Calls("move") : ops[m].node = d}) = 1

\* C36: once a Directory is in tmpfs mode (it made the tmpfs or inherited
\* has_tmpfs), every descendant is applied with has_tmpfs true, no descendant
\* directory binds itself or is moved (create_tmp is false whenever has_tmpfs is
\* true), and every bind mount, mirror and symlink of a descendant goes to a path
\* in the workdir; exactly one move onto a live path is made for each maximal
\* tmpfs subtree.
C36_OneTmpfs ==
    /\ [](pc = "apply" => TmpfsInherited)
    /\ [][Running /\ Top.now_tmp => InTmpfsStep]_vars
    /\ [](pc \in {"apply", "teardown", "done"} /\ nodes # <<>> => OneMovePerSubtree)

\* a tmpfs was moved that holds a file bound two directories down: the directory
\* between them was applied inside the tmpfs
C36_Witness ==
    /\ pc = "done"
    /\ \E m \in Calls("move"), k \in Calls("bind") :
          /\ k < m /\ ops[k].tmp
          /\ IsUnder(ops[k].dst, ops[m].dst)
          /\ Len(ops[k].dst) >= Len(ops[m].dst) + 2

(***************************************************************************)
(* What magic_mount returns.                                               *)
(***************************************************************************)
\* the workdir could not be prepared, or the application of the root raised an error
RootFailed == hist.mount_failed \/ Root \in hist.raised

\* the failures of the run were all absorbed: nodes raised errors, the root did not
Absorbed == hist.raised # {} /\ ~RootFailed

\* C37: magic_mount returns a non-zero result if and only if preparing the workdir
\* fails or the application of the root node itself raises an error, and the exit
\* code of the process is non-zero in exactly these runs; a failure of a child that
\* is absorbed below the root, counted in nodes_fail, leaves the return value and
\* the exit code at 0.
C37_ReturnCode ==
    pc = "done" =>
        /\ rc # "0" <=> RootFailed
        /\ exit_code(rc) # 0 <=> RootFailed
        /\ Absorbed => rc = "0" /\ exit_code(rc) = 0 /\ stats.nodes_fail > 0

\* a run ended with 0 in which a failure was absorbed, counted, and put down to a
\* module
C37_Witness ==
    /\ pc = "done" /\ rc = "0" /\ exit_code(rc) = 0
    /\ Absorbed
    /\ stats.nodes_fail > 0
    /\ failed_modules # <<>>

=============================================================================
